---------------------------- MODULE Spec2Model ----------------------------
(***************************************************************************)
(* A model of the toolpath compiler of bambu-cuts:                         *)
(*   - SVGPathJoinerRemoveMRegex (src/bambucuts/svg_path_joiner.py)        *)
(*   - GCodeTools._optimize_tool_lifts, GCodeTools.svg_to_gcode and        *)
(*     KnifeOffsetCompensator (src/bambucuts/gcodetools.py)                *)
(*                                                                         *)
(* Lengths are integers in units of 0.1 mm, so that the default            *)
(* path_tolerance of 0.1 mm is 1 unit; distances are compared by their     *)
(* squares, which orders them as the Euclidean distances of the code.      *)
(***************************************************************************)
EXTENDS Integers, Sequences, FiniteSets, TLC

VARIABLES
    \* SVGPathJoinerRemoveMRegex
    paths,            \* self.paths: the loaded paths
    joined_paths,     \* self.joined_paths: the result of join_paths
    jpc,              \* where the joiner object is: "init", "loaded", "joined"
    \* GCodeTools._optimize_tool_lifts
    gcode_content,    \* its argument, as lines
    optimized_lines,  \* the lines kept by its first pass (tool-lift elision)
    final_lines,      \* the lines kept by its second pass (redundant Z)
    cleaned_lines,    \* the lines it returns (numeric clean-up)
    opc,              \* "init", "given", "optimized"
    \* GCodeTools.svg_to_gcode
    params,           \* self.params, the CuttingParameters of the job
    output_path,      \* whether the call was given an output_path
    curves,           \* parse_file(processing_svg_path), as polylines
    svg_bounds,       \* <<min_x, min_y, max_x, max_y>>
    pass_num,         \* the passes compiled so far
    pass_depth,       \* interface.pass_depth of the compiler in use
    all_passes_gcode, \* the header and lines of each compiled pass
    combined_gcode,   \* the lines of the compiled stream
    processed_gcode,  \* the lines of the stream being post-processed
    out_file,         \* the file at output_path: written or not, its lines
    spc,              \* where svg_to_gcode is, "failed" once it has raised
    \* KnifeOffsetCompensator
    offset,               \* self.offset
    corner_loop_radius,   \* self.corner_loop_radius
    points,               \* the argument of compensate_path
    offset_path,          \* what _calculate_geometric_offset returned
    compensated,          \* what compensate_path returned
    kpc,                  \* "init", "ready", "done"
    \* GCodeTools, the drag knife offset of a cutting path
    drag_params,      \* self.params: knife_offset and swivel_sensitivity
    cutting_path,     \* the argument of _apply_drag_knife_offset
    drag_points,      \* the argument of _calculate_drag_knife_offset
    offset_points,    \* what _calculate_drag_knife_offset returned
    offset_lines,     \* what _apply_drag_knife_offset returned
    dpc,              \* "init", "ready", "calculated", "applied"
    \* KnifeInterface.transform_coordinates
    iface,            \* the interface: the flags of self.params, svg_bounds
    xy,               \* the arguments (x, y) of the call
    transformed,      \* what the call returned
    tpc,              \* "init", "new", "done"
    \* two svg_to_gcode calls of separate GCodeTools objects
    jobs,             \* of each job: its arguments, its locals, where it is
    fs,               \* the file system: the content of every file name
    \* KnifeInterface, the tool state over a sequence of calls
    is_cutting,       \* self.is_cutting
    tool_cmd,         \* the most recent tool command: "none", "up", "down"
    call,             \* the last call: its name and its argument
    returned,         \* the line the last call returned, None if it raised
    raised,           \* whether the last call raised
    \* GCodeTools._apply_z_offset: z_offset, the argument, what it returned
    zarg_offset,      \* self.params.z_offset
    zarg_content,     \* the argument gcode_content
    zret,             \* the content the call returned
    zpc,              \* "init", "given", "done"
    \* the legacy PathJoiner: the curves join_paths is given, what it returned
    pj_curves,        \* the argument curves: of each curve its points
    pj_joined,        \* the list it returned
    pjpc,             \* "init", "given", "joined"
    \* DragKnifeToolpath of svg2gcode.py: its config, the paths, the G-code
    tp_config,        \* self.config
    tp_paths,         \* the argument paths
    tp_gcode,         \* the lines of the G-code it returned
    gpc               \* "init", "given", "generated"

joinVars == <<paths, joined_paths, jpc>>
optVars == <<gcode_content, optimized_lines, final_lines, cleaned_lines, opc>>
svgVars == <<params, output_path, curves, svg_bounds, pass_num, pass_depth,
             all_passes_gcode, combined_gcode, processed_gcode, out_file, spc>>

dragVars == <<drag_params, cutting_path, drag_points, offset_points,
              offset_lines, dpc>>

knifeVars == <<offset, corner_loop_radius, points, offset_path, compensated,
               kpc, dragVars>>

ifaceVars == <<iface, xy, transformed, tpc>>

jobVars == <<jobs, fs>>

zoffVars == <<zarg_offset, zarg_content, zret, zpc>>

pjVars == <<pj_curves, pj_joined, pjpc>>

toolpathVars == <<tp_config, tp_paths, tp_gcode, gpc>>

toolVars == <<is_cutting, tool_cmd, call, returned, raised>>

moreVars == <<ifaceVars, jobVars, toolVars, zoffVars, pjVars, toolpathVars>>

vars == <<paths, joined_paths, jpc,
          gcode_content, optimized_lines, final_lines, cleaned_lines, opc,
          params, output_path, curves, svg_bounds, pass_num, pass_depth,
          all_passes_gcode, combined_gcode, processed_gcode, out_file, spc,
          offset, corner_loop_radius, points, offset_path, compensated, kpc,
          drag_params, cutting_path, drag_points, offset_points, offset_lines,
          dpc, iface, xy, transformed, tpc, jobs, fs,
          is_cutting, tool_cmd, call, returned, raised,
          zarg_offset, zarg_content, zret, zpc,
          pj_curves, pj_joined, pjpc,
          tp_config, tp_paths, tp_gcode, gpc>>

(***************************************************************************)
(* Bounds of the model                                                     *)
(***************************************************************************)
\* the largest number of paths of a loaded SVG file
MaxPaths == 3
\* the largest number of lines of a G-code stream handed to the optimizer
MaxLines == 5
\* the largest number_of_passes of a job
MaxPasses == 3
\* the largest material_thickness of a job, in units of 0.1 mm
MaxThickness == 2
\* the largest number of curves parsed from the SVG file of a job
MaxCurves == 2
\* the largest number of points of a polyline handed to compensate_path
MaxPoints == 4

(***************************************************************************)
(* Geometry primitives                                                     *)
(***************************************************************************)
\* CuttingParameters.path_tolerance (0.1 mm, one unit)
Tolerance == 1

\* the endpoints the paths of the model are drawn from: two of them within
\* the tolerance of each other, the others far from every other one
Points == {<<0, 0>>, <<1, 0>>, <<3, 0>>, <<3, 2>>}

\* the square of shapely's Point.distance
Dist2(p, q) == (p[1] - q[1]) * (p[1] - q[1]) + (p[2] - q[2]) * (p[2] - q[2])

\* distance <= self.tolerance
WithinTolerance(d2) == d2 <= Tolerance * Tolerance

\* the four svgpathtools segment variants
Kinds == <<"Line", "QuadraticBezier", "CubicBezier", "Arc">>

\* A segment: its variant, its two endpoints, the input path (src) it was
\* loaded from, and whether it is traversed against its loaded direction.
Segment(kind, s, e, src) ==
    [kind |-> kind, start |-> s, end |-> e, src |-> src, rev |-> FALSE]

\* Segment.reversed(): the same curve traversed from its end to its start
ReverseSeg(s) == [s EXCEPT !.start = s.end, !.end = s.start, !.rev = ~s.rev]

\* Path.reversed(): the segments in reverse order, each reversed
ReversedPath(p) == [k \in 1 .. Len(p) |-> ReverseSeg(p[Len(p) + 1 - k])]

\* Path.start and Path.end
PathStart(p) == p[1].start
PathEnd(p) == p[Len(p)].end

(***************************************************************************)
(* SVGPathJoinerRemoveMRegex                                               *)
(***************************************************************************)
None == <<>>

\* _paths_connect with the distance taken along x alone
PathsConnectXOnly(p1, p2) ==
    \/ (PathEnd(p1)[1] - PathStart(p2)[1]) ^ 2 <= Tolerance * Tolerance
    \/ (PathStart(p1)[1] - PathEnd(p2)[1]) ^ 2 <= Tolerance * Tolerance
    \/ (PathEnd(p1)[1] - PathEnd(p2)[1]) ^ 2 <= Tolerance * Tolerance
    \/ (PathStart(p1)[1] - PathStart(p2)[1]) ^ 2 <= Tolerance * Tolerance

\* _paths_connect: any of the four endpoint pairs within tolerance
PathsConnect(p1, p2) ==
    \/ WithinTolerance(Dist2(PathEnd(p1), PathStart(p2)))
    \/ WithinTolerance(Dist2(PathStart(p1), PathEnd(p2)))
    \/ WithinTolerance(Dist2(PathEnd(p1), PathEnd(p2)))
    \/ WithinTolerance(Dist2(PathStart(p1), PathStart(p2)))

RECURSIVE Ascending(_, _, _)
\* the members of S in lo..hi, in ascending order
Ascending(S, lo, hi) ==
    IF lo > hi THEN <<>>
    ELSE (IF lo \in S THEN <<lo>> ELSE <<>>) \o Ascending(S, lo + 1, hi)

\* graph[i] of _find_connected_components: the loops over i < j append j to
\* graph[i] and i to graph[j], which leaves every adjacency list ascending
Graph(ps) ==
    [i \in 1 .. Len(ps) |->
        Ascending({j \in 1 .. Len(ps) : j # i /\ PathsConnect(ps[i], ps[j])},
                  1, Len(ps))]

RECURSIVE DfsLoop(_, _, _, _)
\* the while-stack loop: pop the last node, visit it, push its neighbours
DfsLoop(graph, stack, visited, component) ==
    IF stack = <<>> THEN [visited |-> visited, component |-> component]
    ELSE LET node == stack[Len(stack)]
             rest == SubSeq(stack, 1, Len(stack) - 1)
         IN  IF node \notin visited
             THEN DfsLoop(graph, rest \o graph[node], visited \cup {node},
                          Append(component, node))
             ELSE DfsLoop(graph, rest, visited, component)

RECURSIVE ComponentsFrom(_, _, _, _, _)
\* the for-start_node loop
ComponentsFrom(graph, n, start_node, visited, components) ==
    IF start_node > n THEN components
    ELSE IF start_node \in visited
         THEN ComponentsFrom(graph, n, start_node + 1, visited, components)
         ELSE LET r == DfsLoop(graph, <<start_node>>, visited, <<>>)
              IN  ComponentsFrom(graph, n, start_node + 1, r.visited,
                                 Append(components, r.component))

\* _find_connected_components
FindConnectedComponents(ps) ==
    ComponentsFrom(Graph(ps), Len(ps), 1, {}, <<>>)

RECURSIVE FirstMin(_, _, _)
\* min(valid_connections, key=distance): the first of the closest
FirstMin(conns, k, best) ==
    IF k > Len(conns) THEN best
    ELSE FirstMin(conns, k + 1,
                  IF conns[k][2] < best[2] THEN conns[k] ELSE best)

\* _find_best_connection: the closest of the four connections between the
\* two ends of the chain and the two ends of the path, None if none is within
\* tolerance
FindBestConnection(segments, path) ==
    IF segments = <<>> THEN None
    ELSE LET first_point == segments[1].start
             last_point == segments[Len(segments)].end
             p_start == PathStart(path)
             p_end == PathEnd(path)
             connections ==
                 << <<"end_to_start", Dist2(last_point, p_start)>>,
                    <<"start_to_end", Dist2(first_point, p_end)>>,
                    <<"end_to_end", Dist2(last_point, p_end)>>,
                    <<"start_to_start", Dist2(first_point, p_start)>> >>
             valid_connections ==
                 SelectSeq(connections, LAMBDA c : WithinTolerance(c[2]))
         IN  IF valid_connections = <<>> THEN None
             ELSE FirstMin(valid_connections, 2, valid_connections[1])

RECURSIVE BestOfRemaining(_, _, _, _)
\* the for-loop over remaining_paths: the first of the closest candidates;
\* best is <<best_idx, best_connection>>, or None while nothing was found
BestOfRemaining(all_segments, remaining_paths, i, best) ==
    IF i > Len(remaining_paths) THEN best
    ELSE LET connection == FindBestConnection(all_segments, remaining_paths[i])
         IN  BestOfRemaining(all_segments, remaining_paths, i + 1,
                 IF connection # None
                    /\ (best = None \/ connection[2] < best[2][2])
                 THEN <<i, connection>> ELSE best)

\* the connection_type branches without the reversal of the attached path
AttachUnreversed(all_segments, path_to_connect, connection_type) ==
    IF connection_type \in {"end_to_start", "end_to_end"}
    THEN all_segments \o path_to_connect
    ELSE path_to_connect \o all_segments

\* the segments of the chain after path_to_connect was attached
Attach(all_segments, path_to_connect, connection_type) ==
    CASE connection_type = "end_to_start" -> all_segments \o path_to_connect
      [] connection_type = "start_to_end" -> path_to_connect \o all_segments
      [] connection_type = "end_to_end" ->
             all_segments \o ReversedPath(path_to_connect)
      [] connection_type = "start_to_start" ->
             ReversedPath(path_to_connect) \o all_segments

\* remaining_paths.pop(best_idx)
Pop(s, i) == SubSeq(s, 1, i - 1) \o SubSeq(s, i + 1, Len(s))

RECURSIVE JoinLoop(_, _)
\* the while-remaining_paths loop; it stops when nothing connects
JoinLoop(all_segments, remaining_paths) ==
    IF remaining_paths = <<>> THEN all_segments
    ELSE LET best == BestOfRemaining(all_segments, remaining_paths, 1, None)
         IN  IF best = None THEN all_segments
             ELSE JoinLoop(Attach(all_segments, remaining_paths[best[1]],
                                  best[2][1]),
                           Pop(remaining_paths, best[1]))

RECURSIVE GrowthSteps(_, _)
\* the iterations of the while-remaining_paths loop that attach a path: the
\* chain and the remaining paths each one starts from, and what it chose
GrowthSteps(all_segments, remaining_paths) ==
    IF remaining_paths = <<>> THEN <<>>
    ELSE LET best == BestOfRemaining(all_segments, remaining_paths, 1, None)
         IN  IF best = None THEN <<>>
             ELSE <<[all_segments |-> all_segments,
                     remaining_paths |-> remaining_paths,
                     best_idx |-> best[1],
                     best_connection |-> best[2]]>>
                  \o GrowthSteps(Attach(all_segments,
                                        remaining_paths[best[1]], best[2][1]),
                                 Pop(remaining_paths, best[1]))

\* _join_path_component, for a component of two paths or more
JoinPathComponent(ps, component) ==
    JoinLoop(ps[component[1]],
             [k \in 1 .. Len(component) - 1 |-> ps[component[k + 1]]])

RECURSIVE JoinComponents(_, _, _, _)
\* the for-component loop of join_paths
JoinComponents(ps, components, k, joined) ==
    IF k > Len(components) THEN joined
    ELSE LET component == components[k]
             joined_path == IF Len(component) = 1 THEN ps[component[1]]
                            ELSE JoinPathComponent(ps, component)
         IN  JoinComponents(ps, components, k + 1,
                 IF joined_path # <<>> THEN Append(joined, joined_path)
                 ELSE joined)

\* join_paths
JoinPathsOf(ps) ==
    IF ps = <<>> THEN <<>>
    ELSE JoinComponents(ps, FindConnectedComponents(ps), 1, <<>>)

\* the variant of the segments of input path i
KindOf(i) == Kinds[((i - 1) % Len(Kinds)) + 1]

\* the SVG files of the model: up to MaxPaths paths of one segment each
PathLists ==
    UNION {[1 .. n -> Points \X Points] : n \in 0 .. MaxPaths}

LoadedPaths(ends) ==
    [i \in 1 .. Len(ends) |-> <<Segment(KindOf(i), ends[i][1], ends[i][2], i)>>]

\* load_svg: the paths of an SVG file
LoadSvg ==
    /\ jpc = "init"
    /\ \E ends \in PathLists : paths' = LoadedPaths(ends)
    /\ jpc' = "loaded"
    /\ UNCHANGED <<joined_paths, optVars, svgVars, knifeVars, moreVars>>

\* join_paths
JoinPaths ==
    /\ jpc = "loaded"
    /\ joined_paths' = JoinPathsOf(paths)
    /\ jpc' = "joined"
    /\ UNCHANGED <<paths, optVars, svgVars, knifeVars, moreVars>>

(***************************************************************************)
(* G-code lines                                                            *)
(*                                                                         *)
(* A number of a line is the text Python's float formatting wrote: a       *)
(* mantissa and, for a magnitude below 1e-4 (the residue of a floating     *)
(* point cancellation), an exponent: "3e-15" is [mant |-> 3, exp |-> -15]. *)
(* Plain numbers have exp = 0 and count units of 0.1 mm.                   *)
(***************************************************************************)
Num(m) == [mant |-> m, exp |-> 0]
Sci(m) == [mant |-> m, exp |-> -15]

\* float() of the whole number text: a magnitude of 1e-15 is zero units
FloatOf(t) == IF t.exp = 0 THEN t.mant ELSE 0

\* float() of what r'X([+-]?\d*\.?\d+)' matches: the match ends before an
\* exponent, so "3e-15" reads as 3
ShortFloatOf(t) == t.mant

\* the number of a field a line does not have
NoNum == Num(0)

\* A line is its command word (g), the axes it moves, its numbers, its F
\* word ("movement", "cutting" or "none"), and two fields no code reads:
\* its line number n in the stream handed to the optimizer, and the pass and
\* curve (tag) it was compiled from, which tell the lines of a stream apart.
Line(g, axis, x, y, z, f) ==
    [g |-> g, axis |-> axis, x |-> x, y |-> y, z |-> z, f |-> f, n |-> 0,
     tag |-> <<>>]

\* KnifeInterface.laser_off: "G1 Z{safe_z} F{movement_speed}"
LaserOffLine(z) == Line("G1", "Z", NoNum, NoNum, z, "movement")
\* KnifeInterface.laser_on: "G1 Z{cut_z} F{cutting_speed}"
LaserOnLine(z) == Line("G1", "Z", NoNum, NoNum, z, "cutting")
\* KnifeInterface.linear_move: "G1 X{x} Y{y} F{speed}"
G1XY(x, y, f) == Line("G1", "XY", x, y, NoNum, f)
\* KnifeInterface.rapid_move: "G0 X{x} Y{y} F{movement_speed}"
G0XY(x, y) == Line("G0", "XY", x, y, NoNum, "movement")

\* the Z of laser_off: material_thickness 0.2 mm + 2 mm
SafeZ == 22
\* the Z of laser_on in a single pass: material_thickness - pass_depth
CutZ == 0

\* line.startswith('G1 Z') and 'F' in line
IsG1ZWithF(l) == l.g = "G1" /\ l.axis = "Z" /\ l.f # "none"
\* line.startswith('G1 X') and 'F' in line
IsG1XWithF(l) == l.g = "G1" /\ l.axis = "XY" /\ l.f # "none"

\* _extract_position_from_line, of a line with an X and a Y word
ExtractPositionFromLine(l) ==
    IF l.axis = "XY" THEN <<ShortFloatOf(l.x), ShortFloatOf(l.y)>> ELSE None

\* _positions_close
PositionsClose(pos1, pos2, tolerance) ==
    IF pos1 = None \/ pos2 = None THEN FALSE
    ELSE Dist2(pos1, pos2) <= tolerance * tolerance

(***************************************************************************)
(* GCodeTools._optimize_tool_lifts                                         *)
(***************************************************************************)
\* the test of the first pass at line i: a G1 Z line, then a G1 X line whose
\* position is close to the last recorded one, then a G1 Z line
LiftPattern(lines, i, last_cutting_position) ==
    /\ IsG1ZWithF(lines[i])
    /\ i + 2 <= Len(lines)
    /\ IsG1XWithF(lines[i + 1])
    /\ IsG1ZWithF(lines[i + 2])
    /\ last_cutting_position # None
    /\ ExtractPositionFromLine(lines[i + 1]) # None
    /\ PositionsClose(last_cutting_position,
                      ExtractPositionFromLine(lines[i + 1]), Tolerance)

RECURSIVE ElideLoop(_, _, _, _)
\* the while loop of the first pass (i counts from 1)
ElideLoop(lines, i, last_cutting_position, optimized) ==
    IF i > Len(lines) THEN optimized
    ELSE IF LiftPattern(lines, i, last_cutting_position)
         THEN ElideLoop(lines, i + 3, last_cutting_position,
                        Append(optimized, lines[i + 2]))
         ELSE ElideLoop(lines, i + 1,
                        IF IsG1XWithF(lines[i])
                        THEN ExtractPositionFromLine(lines[i])
                        ELSE last_cutting_position,
                        Append(optimized, lines[i]))

\* the first pass: tool-lift elision
ElideToolLifts(lines) == ElideLoop(lines, 1, None, <<>>)

\* abs(z_value - current_z) < 0.001, of Z values in units of 0.1 mm
SameZ(a, b) == a = b

RECURSIVE RedundantZLoop(_, _, _, _)
\* the second pass: a Z line at the Z of the last kept Z line is skipped;
\* current_z is <<z>>, or None before the first Z line
RedundantZLoop(lines, i, current_z, final) ==
    IF i > Len(lines) THEN final
    ELSE LET l == lines[i]
             z_value == ShortFloatOf(l.z)
         IN  IF l.axis = "Z"
             THEN IF current_z # None /\ SameZ(z_value, current_z[1])
                  THEN RedundantZLoop(lines, i + 1, current_z, final)
                  ELSE RedundantZLoop(lines, i + 1, <<z_value>>,
                                      Append(final, l))
             ELSE RedundantZLoop(lines, i + 1, current_z, Append(final, l))

RemoveRedundantZ(lines) == RedundantZLoop(lines, 1, None, <<>>)

\* the third pass on one line: X and Y are read with their exponent and
\* written back with six decimals
CleanLine(l) ==
    IF l.axis = "XY"
    THEN [l EXCEPT !.x = Num(FloatOf(l.x)), !.y = Num(FloatOf(l.y))]
    ELSE l

CleanLines(lines) == [k \in 1 .. Len(lines) |-> CleanLine(lines[k])]

\* the positions of the X/Y moves of the streams of the model: two within
\* tolerance of each other, one far, and one whose X is a residue
LinearTargets ==
    {<<Num(0), Num(0)>>, <<Num(1), Num(0)>>, <<Num(3), Num(2)>>,
     <<Sci(3), Num(2)>>}
RapidTargets == {<<Num(0), Num(0)>>, <<Num(3), Num(2)>>}

\* the lines of the streams of the model
LineAlphabet ==
    {LaserOffLine(Num(SafeZ)), LaserOnLine(Num(CutZ))}
    \cup {G1XY(p[1], p[2], "cutting") : p \in LinearTargets}
    \cup {G0XY(p[1], p[2]) : p \in RapidTargets}

Streams == UNION {[1 .. n -> LineAlphabet] : n \in 0 .. MaxLines}

\* a G-code stream is handed to _optimize_tool_lifts
GivenGcode ==
    /\ opc = "init"
    /\ \E lines \in Streams :
           gcode_content' = [k \in 1 .. Len(lines) |-> [lines[k] EXCEPT !.n = k]]
    /\ opc' = "given"
    /\ UNCHANGED <<optimized_lines, final_lines, cleaned_lines, joinVars, svgVars,
                   knifeVars, moreVars>>

\* the lines of the streams of Z moves: tool up at the safe height, tool
\* down at the cut height, tool down at a cut height that is the residue of
\* a floating point cancellation and is written with the digits of the safe
\* height ("2.2e-15"), the lift of the Home command, and two cutting moves
ZLineAlphabet ==
    {LaserOffLine(Num(SafeZ)), LaserOnLine(Num(CutZ)),
     LaserOnLine(Sci(SafeZ)),
     Line("G0", "Z", NoNum, NoNum, Num(SafeZ), "none"),
     G1XY(Num(0), Num(0), "cutting"), G1XY(Num(3), Num(2), "cutting")}

ZStreams == UNION {[1 .. n -> ZLineAlphabet] : n \in 0 .. MaxLines}

\* a stream of tool moves is handed to _optimize_tool_lifts
GivenZMoves ==
    /\ opc = "init"
    /\ \E lines \in ZStreams :
           gcode_content' = [k \in 1 .. Len(lines) |-> [lines[k] EXCEPT !.n = k]]
    /\ opc' = "given"
    /\ UNCHANGED <<optimized_lines, final_lines, cleaned_lines, joinVars, svgVars,
                   knifeVars, moreVars>>

\* _optimize_tool_lifts: its three passes
OptimizeToolLifts ==
    /\ opc = "given"
    /\ optimized_lines' = ElideToolLifts(gcode_content)
    /\ final_lines' = RemoveRedundantZ(ElideToolLifts(gcode_content))
    /\ cleaned_lines' =
           CleanLines(RemoveRedundantZ(ElideToolLifts(gcode_content)))
    /\ opc' = "optimized"
    /\ UNCHANGED <<gcode_content, joinVars, svgVars, knifeVars, moreVars>>

(***************************************************************************)
(* GCodeTools.svg_to_gcode                                                 *)
(*                                                                         *)
(* X and Y count units of 0.1 mm.  Z values and depths count units of      *)
(* 0.1 / ZScale mm, ZScale being the least common multiple of the pass     *)
(* counts of the model, so that material_thickness / number_of_passes is   *)
(* computed exactly: the model follows the arithmetic of the code over the *)
(* rationals and leaves out the rounding of its floating point numbers.    *)
(***************************************************************************)
RECURSIVE Gcd(_, _)
Gcd(a, b) == IF b = 0 THEN a ELSE Gcd(b, a % b)

RECURSIVE LcmUpTo(_)
LcmUpTo(n) ==
    IF n <= 1 THEN 1
    ELSE (LcmUpTo(n - 1) * n) \div Gcd(LcmUpTo(n - 1), n)

ZScale == LcmUpTo(MaxPasses)

\* a length of units of 0.1 mm, as a Z value
ZOf(v) == v * ZScale

\* the 2 mm that laser_off adds to material_thickness
SafeClearance == 20

\* the z_offset values of the jobs of the model: none, and 0.5 mm
ZOffsets == {0, 5}

\* the CuttingParameters of the jobs of the model, of the default origin
\* convention and swivel sensitivity: knife_offset is 0 and z_safe_height
\* None, or for the thickest material of one and two passes either
\* z_safe_height is an explicit 3 mm, written <<30>>, or knife_offset is
\* 0.1 mm
ParamSets ==
    [material_thickness : 0 .. MaxThickness,
     number_of_passes : 1 .. MaxPasses,
     z_offset : ZOffsets,
     knife_offset : {0},
     swivel_sensitivity : {6},
     origin_top_left : {TRUE},
     mirror_x : {FALSE},
     mirror_y : {FALSE},
     z_safe_height : {None}]
    \cup
    [material_thickness : {MaxThickness},
     number_of_passes : 1 .. 2,
     z_offset : ZOffsets,
     knife_offset : {0},
     swivel_sensitivity : {6},
     origin_top_left : {TRUE},
     mirror_x : {FALSE},
     mirror_y : {FALSE},
     z_safe_height : {<<30>>}]
    \cup
    [material_thickness : {MaxThickness},
     number_of_passes : 1 .. 2,
     z_offset : ZOffsets,
     knife_offset : {1},
     swivel_sensitivity : {6},
     origin_top_left : {TRUE},
     mirror_x : {FALSE},
     mirror_y : {FALSE},
     z_safe_height : {None}]

\* the curves parse_file returns: straight lines, one of them no longer
\* than the path tolerance
CurveShapes ==
    {<<(<<0, 0>>), (<<3, 0>>)>>, <<(<<3, 0>>), (<<3, 2>>)>>,
     <<(<<0, 0>>), (<<1, 0>>)>>}

CurveLists == UNION {[1 .. n -> CurveShapes] : n \in 1 .. MaxCurves}

Min(S) == CHOOSE v \in S : \A w \in S : v <= w
Max(S) == CHOOSE v \in S : \A w \in S : v >= w

\* _calculate_svg_bounds: the bounds of the start and end of every curve
CalculateSvgBounds(cs) ==
    LET all_x == {cs[c][1][1] : c \in 1 .. Len(cs)}
                 \cup {cs[c][Len(cs[c])][1] : c \in 1 .. Len(cs)}
        all_y == {cs[c][1][2] : c \in 1 .. Len(cs)}
                 \cup {cs[c][Len(cs[c])][2] : c \in 1 .. Len(cs)}
    IN  <<Min(all_x), Min(all_y), Max(all_x), Max(all_y)>>

\* the mutation of transform_coordinates that does not flip the Y axis
TransformCoordinatesNoFlip(p, bounds, pt) ==
    IF ~p.origin_top_left \/ bounds = None THEN pt
    ELSE LET offset_x == pt[1] - bounds[1]
             offset_y == pt[2] - bounds[2]
             content_height == bounds[4] - bounds[2]
             content_width == bounds[3] - bounds[1]
         IN  <<IF p.mirror_x THEN content_width - offset_x ELSE offset_x,
               IF p.mirror_y THEN content_height - offset_y ELSE offset_y>>

\* KnifeInterface.transform_coordinates; svg_bounds is None until
\* set_svg_bounds is called
TransformCoordinates(p, bounds, pt) ==
    IF ~p.origin_top_left \/ bounds = None THEN pt
    ELSE LET offset_x == pt[1] - bounds[1]
             offset_y == pt[2] - bounds[2]
             content_height == bounds[4] - bounds[2]
             content_width == bounds[3] - bounds[1]
             flipped_y == content_height - offset_y
         IN  <<IF p.mirror_x THEN content_width - offset_x ELSE offset_x,
               IF p.mirror_y THEN content_height - flipped_y ELSE flipped_y>>

\* KnifeInterface.laser_off: z_safe_height if it is not None, else
\* material_thickness + 2
LaserOff(p) ==
    LaserOffLine(Num(ZOf(IF p.z_safe_height # None THEN p.z_safe_height[1]
                         ELSE p.material_thickness + SafeClearance)))

\* KnifeInterface.laser_on
LaserOn(p, depth) == LaserOnLine(Num(ZOf(p.material_thickness) - depth))

\* linear_move with the cutting speed whatever the tool state
LinearMoveAtCuttingSpeed(p, bounds, pt, cutting) ==
    G1XY(Num(TransformCoordinates(p, bounds, pt)[1]),
         Num(TransformCoordinates(p, bounds, pt)[2]), "cutting")

\* KnifeInterface.linear_move
LinearMove(p, bounds, pt, cutting) ==
    LET t == TransformCoordinates(p, bounds, pt)
    IN  G1XY(Num(t[1]), Num(t[2]),
             IF cutting THEN "cutting" ELSE "movement")

\* KnifeInterface.rapid_move
RapidMove(p, bounds, pt) ==
    LET t == TransformCoordinates(p, bounds, pt)
    IN  G0XY(Num(t[1]), Num(t[2]))

\* the lines of a stream, each marked with the pass and curve it is of
Tagged(lines, k, c) ==
    [j \in 1 .. Len(lines) |-> [lines[j] EXCEPT !.tag = <<k, c>>]]

\* Compiler.append_curves of one curve: tool up, travel to its first point,
\* tool down at the depth of the pass, then a move to each further point
CompileCurve(p, bounds, depth, curve) ==
    <<LaserOff(p), LinearMove(p, bounds, curve[1], FALSE), LaserOn(p, depth)>>
    \o [j \in 1 .. Len(curve) - 1 |->
            LinearMove(p, bounds, curve[j + 1], TRUE)]

RECURSIVE CompileFrom(_, _, _, _, _, _)
CompileFrom(p, bounds, depth, cs, k, c) ==
    IF c > Len(cs) THEN <<>>
    ELSE Tagged(CompileCurve(p, bounds, depth, cs[c]), k, c)
         \o CompileFrom(p, bounds, depth, cs, k, c + 1)

\* Compiler.append_curves and Compiler.compile: the curves in their order
CompilePass(p, bounds, depth, cs, k) == CompileFrom(p, bounds, depth, cs, k, 1)

\* cut_depth_per_pass = material_thickness / number_of_passes, of a
\* number_of_passes other than 0
CutDepthPerPass(p) ==
    IF p.number_of_passes > 0
    THEN ZOf(p.material_thickness) \div p.number_of_passes
    ELSE 0 - (ZOf(p.material_thickness) \div (0 - p.number_of_passes))

\* the mutation of PassCutDepth that counts the passes from 0
PassCutDepthFromZero(cut_depth_per_pass, n) == cut_depth_per_pass * n

\* pass_cut_depth = cut_depth_per_pass * (pass_num + 1)
PassCutDepth(cut_depth_per_pass, n) == cut_depth_per_pass * (n + 1)

\* f"{pass_cut_depth:.3f}": the depth in units of 0.001 mm, rounded
Round3(depth) == (2 * 100 * depth + ZScale) \div (2 * ZScale)

BlankLine == Line("blank", "none", NoNum, NoNum, NoNum, "none")

\* "; Pass {pass_num + 1} of {number_of_passes} (cut depth: ...mm)"; x and
\* y hold the two pass numbers and z the depth it prints
PassComment(k, total, depth) ==
    Line("comment", "none", Num(k), Num(total), Num(Round3(depth)), "none")

\* pass_header: a blank line and the comment of the pass
PassHeader(k, total, depth) ==
    Tagged(<<BlankLine, PassComment(k, total, depth)>>, k, 0)

\* the mutation of AppendPass that puts the newest pass first
PrependPass(all, pass) == <<pass>> \o all

\* all_passes_gcode.append(pass_header + pass_gcode)
AppendPass(all, pass) == Append(all, pass)

RECURSIVE JoinPasses(_)
\* '\n'.join(all_passes_gcode)
JoinPasses(all) ==
    IF all = <<>> THEN <<>> ELSE Head(all) \o JoinPasses(Tail(all))

\* get_origin_setting_command: "G92 X0 Y0 ; Set current position as origin"
OriginCommand == Line("G92", "XY", Num(0), Num(0), NoNum, "none")

\* the Z of get_home_command, 50 mm
HomeZ == 500

\* get_home_command: "G0 Z50 ; Lift to safe height" and
\* "G0 X0 Y0 ; Move back to origin"
HomeCommand ==
    <<Line("G0", "Z", NoNum, NoNum, Num(ZOf(HomeZ)), "none"),
      Line("G0", "XY", Num(0), Num(0), NoNum, "none")>>

\* stripped and not stripped.startswith(';')
IsCode(l) == l.g \notin {"blank", "comment"}

\* _add_origin_setting: the command goes before the first line of code
AddOriginSetting(lines, origin_command) ==
    LET code == {i \in 1 .. Len(lines) : IsCode(lines[i])}
        insert_index == IF code = {} THEN 1 ELSE Min(code)
    IN  SubSeq(lines, 1, insert_index - 1) \o <<origin_command>>
        \o SubSeq(lines, insert_index, Len(lines))

\* _add_home_command: the command goes before the last M2 line, or at the
\* end
AddHomeCommand(lines, home_command) ==
    LET m2 == {i \in 1 .. Len(lines) : lines[i].g = "M2"}
        insert_index == IF m2 = {} THEN Len(lines) + 1 ELSE Max(m2)
    IN  SubSeq(lines, 1, insert_index - 1) \o home_command
        \o SubSeq(lines, insert_index, Len(lines))

\* _apply_z_offset on one line: a G0 or G1 line with a Z word has its Z,
\* read up to an exponent, replaced by the sum written with six decimals
ZOffsetLine(l, z_offset) ==
    IF l.axis = "Z" /\ l.g \in {"G0", "G1"}
    THEN [l EXCEPT !.z = [mant |-> ShortFloatOf(l.z) + ZOf(z_offset),
                          exp |-> l.z.exp]]
    ELSE l

\* _apply_z_offset
ApplyZOffset(lines, z_offset) ==
    IF z_offset = 0 THEN lines
    ELSE [j \in 1 .. Len(lines) |-> ZOffsetLine(lines[j], z_offset)]

\* the file at output_path
NoFile == [written |-> FALSE, content |-> <<>>]
FileOf(lines) == [written |-> TRUE, content |-> lines]

\* GCodeTools.__init__: the parameters of the job
GCodeToolsInit ==
    /\ spc = "init"
    /\ params' \in ParamSets
    /\ spc' = "ready"
    /\ UNCHANGED <<output_path, curves, svg_bounds, pass_num, pass_depth,
                   all_passes_gcode, combined_gcode, processed_gcode,
                   out_file, joinVars, optVars, knifeVars, moreVars>>

\* the CuttingParameters no job should be made of: number_of_passes below
\* 1, or a material_thickness below 0
InvalidParamSets ==
    [material_thickness : {-1, MaxThickness},
     number_of_passes : {-1, 0},
     z_offset : {0},
     knife_offset : {0},
     swivel_sensitivity : {6},
     origin_top_left : {TRUE},
     mirror_x : {FALSE},
     mirror_y : {FALSE},
     z_safe_height : {None}]
    \cup
    [material_thickness : {-1},
     number_of_passes : 1 .. 2,
     z_offset : {0},
     knife_offset : {0},
     swivel_sensitivity : {6},
     origin_top_left : {TRUE},
     mirror_x : {FALSE},
     mirror_y : {FALSE},
     z_safe_height : {None}]

\* GCodeTools.__init__ with such parameters: the dataclass and the
\* constructor check nothing
GCodeToolsInitInvalid ==
    /\ spc = "init"
    /\ params' \in InvalidParamSets
    /\ spc' = "ready"
    /\ UNCHANGED <<output_path, curves, svg_bounds, pass_num, pass_depth,
                   all_passes_gcode, combined_gcode, processed_gcode,
                   out_file, joinVars, optVars, knifeVars, moreVars>>

\* svg_to_gcode, to the parsed curves and their bounds
ParseSvg ==
    /\ spc = "ready"
    /\ output_path' \in BOOLEAN
    /\ curves' \in CurveLists
    /\ svg_bounds' = CalculateSvgBounds(curves')
    /\ spc' = "parsed"
    /\ UNCHANGED <<params, pass_num, pass_depth, all_passes_gcode,
                   combined_gcode, processed_gcode, out_file,
                   joinVars, optVars, knifeVars, moreVars>>

\* the compiler of the job is made with pass_depth = cut_depth_per_pass
MakeCompiler ==
    /\ spc = "parsed"
    /\ params.number_of_passes # 0
    /\ pass_depth' = CutDepthPerPass(params)
    /\ pass_num' = 0
    /\ all_passes_gcode' = <<>>
    /\ spc' = IF params.number_of_passes > 1 THEN "passes" ELSE "single"
    /\ UNCHANGED <<params, output_path, curves, svg_bounds, combined_gcode,
                   processed_gcode, out_file, joinVars, optVars, knifeVars,
                   moreVars>>

\* material_thickness / number_of_passes raises ZeroDivisionError
DivisionFails ==
    /\ spc = "parsed"
    /\ params.number_of_passes = 0
    /\ spc' = "failed"
    /\ UNCHANGED <<params, output_path, curves, svg_bounds, pass_num,
                   pass_depth, all_passes_gcode, combined_gcode,
                   processed_gcode, out_file, joinVars, optVars, knifeVars,
                   moreVars>>

\* one turn of the loop over the passes
CompileOnePass ==
    /\ spc = "passes"
    /\ pass_num < params.number_of_passes
    /\ LET pass_cut_depth == PassCutDepth(CutDepthPerPass(params), pass_num)
           pass_gcode == CompilePass(params, svg_bounds, pass_cut_depth,
                                     curves, pass_num + 1)
           pass_header == PassHeader(pass_num + 1, params.number_of_passes,
                                     pass_cut_depth)
       IN  /\ pass_depth' = pass_cut_depth
           /\ all_passes_gcode' =
                  AppendPass(all_passes_gcode, pass_header \o pass_gcode)
    /\ pass_num' = pass_num + 1
    /\ UNCHANGED <<params, output_path, curves, svg_bounds, combined_gcode,
                   processed_gcode, out_file, spc, joinVars, optVars, knifeVars,
                   moreVars>>

\* the end of the loop: the passes are joined
CombinePasses ==
    /\ spc = "passes"
    /\ pass_num = params.number_of_passes
    /\ combined_gcode' = JoinPasses(all_passes_gcode)
    /\ spc' = "compiled"
    /\ UNCHANGED <<params, output_path, curves, svg_bounds, pass_num,
                   pass_depth, all_passes_gcode, processed_gcode, out_file,
                   joinVars, optVars, knifeVars, moreVars>>

\* number_of_passes is not above 1: the compiler of the job compiles
SinglePass ==
    /\ spc = "single"
    /\ pass_depth' = CutDepthPerPass(params)
    /\ combined_gcode' =
           CompilePass(params, svg_bounds, CutDepthPerPass(params), curves, 1)
    /\ pass_num' = 1
    /\ spc' = "compiled"
    /\ UNCHANGED <<params, output_path, curves, svg_bounds, all_passes_gcode,
                   processed_gcode, out_file, joinVars, optVars, knifeVars,
                   moreVars>>

\* with an output_path, the compiled stream is written to the file
WriteCombined ==
    /\ spc = "compiled"
    /\ output_path
    /\ out_file' = FileOf(combined_gcode)
    /\ spc' = "written"
    /\ UNCHANGED <<params, output_path, curves, svg_bounds, pass_num,
                   pass_depth, all_passes_gcode, combined_gcode,
                   processed_gcode, joinVars, optVars, knifeVars, moreVars>>

\* and read back: _read_gcode_file
ReadBack ==
    /\ spc = "written"
    /\ processed_gcode' = out_file.content
    /\ spc' = "read"
    /\ UNCHANGED <<params, output_path, curves, svg_bounds, pass_num,
                   pass_depth, all_passes_gcode, combined_gcode, out_file,
                   joinVars, optVars, knifeVars, moreVars>>

\* without an output_path, the compiled stream is processed as a string
TakeString ==
    /\ spc = "compiled"
    /\ ~output_path
    /\ processed_gcode' = combined_gcode
    /\ spc' = "read"
    /\ UNCHANGED <<params, output_path, curves, svg_bounds, pass_num,
                   pass_depth, all_passes_gcode, combined_gcode, out_file,
                   joinVars, optVars, knifeVars, moreVars>>

\* the origin command is put before the stream
AddOrigin ==
    /\ spc = "read"
    /\ processed_gcode' = AddOriginSetting(processed_gcode, OriginCommand)
    /\ spc' = "origin"
    /\ UNCHANGED <<params, output_path, curves, svg_bounds, pass_num,
                   pass_depth, all_passes_gcode, combined_gcode, out_file,
                   joinVars, optVars, knifeVars, moreVars>>

\* the home command is put after it
AddHome ==
    /\ spc = "origin"
    /\ processed_gcode' = AddHomeCommand(processed_gcode, HomeCommand)
    /\ spc' = "home"
    /\ UNCHANGED <<params, output_path, curves, svg_bounds, pass_num,
                   pass_depth, all_passes_gcode, combined_gcode, out_file,
                   joinVars, optVars, knifeVars, moreVars>>

\* the Z offset is applied
ApplyZ ==
    /\ spc = "home"
    /\ processed_gcode' = ApplyZOffset(processed_gcode, params.z_offset)
    /\ spc' = "zoffset"
    /\ UNCHANGED <<params, output_path, curves, svg_bounds, pass_num,
                   pass_depth, all_passes_gcode, combined_gcode, out_file,
                   joinVars, optVars, knifeVars, moreVars>>

\* the tool lifts are optimized: after the knife offset where there is an
\* output_path and knife_offset is not 0, else after the Z offset
OptimizeLifts ==
    /\ \/ spc = "knife"
       \/ spc = "zoffset" /\ ~(output_path /\ params.knife_offset # 0)
    /\ processed_gcode' =
           CleanLines(RemoveRedundantZ(ElideToolLifts(processed_gcode)))
    /\ spc' = "optimized"
    /\ UNCHANGED <<params, output_path, curves, svg_bounds, pass_num,
                   pass_depth, all_passes_gcode, combined_gcode, out_file,
                   joinVars, optVars, knifeVars, moreVars>>

\* the processed stream is written to the file and returned
WriteProcessed ==
    /\ spc = "optimized"
    /\ output_path
    /\ out_file' = FileOf(processed_gcode)
    /\ spc' = "done"
    /\ UNCHANGED <<params, output_path, curves, svg_bounds, pass_num,
                   pass_depth, all_passes_gcode, combined_gcode,
                   processed_gcode, joinVars, optVars, knifeVars, moreVars>>

\* without an output_path, the processed stream is returned
ReturnString ==
    /\ spc = "optimized"
    /\ ~output_path
    /\ spc' = "done"
    /\ UNCHANGED <<params, output_path, curves, svg_bounds, pass_num,
                   pass_depth, all_passes_gcode, combined_gcode,
                   processed_gcode, out_file, joinVars, optVars, knifeVars,
                   moreVars>>

\* the positions svg_to_gcode can raise from
Running ==
    {"parsed", "passes", "single", "compiled", "written", "read", "origin",
     "home", "zoffset", "knife", "optimized"}

\* the step at hand raises before it has changed anything: svg_to_gcode
\* catches nothing, the exception leaves it
StageFails ==
    /\ spc \in Running
    /\ spc' = "failed"
    /\ UNCHANGED <<params, output_path, curves, svg_bounds, pass_num,
                   pass_depth, all_passes_gcode, combined_gcode,
                   processed_gcode, out_file, joinVars, optVars, knifeVars,
                   moreVars>>

\* a write raises after open(output_path, 'w') has emptied the file and
\* some of the text has reached it
WriteFails ==
    /\ spc \in {"compiled", "optimized"}
    /\ output_path
    /\ LET text == IF spc = "compiled" THEN combined_gcode
                   ELSE processed_gcode
       IN  \E k \in 0 .. Len(text) - 1 :
               out_file' = FileOf(SubSeq(text, 1, k))
    /\ spc' = "failed"
    /\ UNCHANGED <<params, output_path, curves, svg_bounds, pass_num,
                   pass_depth, all_passes_gcode, combined_gcode,
                   processed_gcode, joinVars, optVars, knifeVars, moreVars>>

(***************************************************************************)
(* KnifeOffsetCompensator                                                  *)
(*                                                                         *)
(* The floats of the compensator are fixed-point numbers: a coordinate is  *)
(* an integer count of 1 / Resolution of 0.1 mm, a unit vector has length  *)
(* Resolution, and a quotient is rounded to the nearest count.  A vector   *)
(* or point whose coordinates are NaN has nan = TRUE.  Where the angle of  *)
(* a corner is 45 degrees, the rounding of the floats decides on which     *)
(* side of math.pi / 4 it falls: the model takes either side.              *)
(***************************************************************************)
Resolution == 4000

Vec(x, y) == [x |-> x, y |-> y, nan |-> FALSE]
NaNVec == [x |-> 0, y |-> 0, nan |-> TRUE]

\* a / b to the nearest integer, b > 0
RoundDiv(a, b) == (2 * a + b) \div (2 * b)

RECURSIVE SqrtBetween(_, _, _)
\* the largest r in lo .. hi with r * r <= n
SqrtBetween(n, lo, hi) ==
    IF lo = hi THEN lo
    ELSE LET mid == (lo + hi + 1) \div 2
         IN  IF mid * mid <= n THEN SqrtBetween(n, mid, hi)
             ELSE SqrtBetween(n, lo, mid - 1)

\* np.linalg.norm
Norm(v) == SqrtBetween(v.x * v.x + v.y * v.y, 0, 46340)

\* v / np.linalg.norm(v), as a vector of length len: 0 / 0 is NaN
Normalized(v, len) ==
    IF v.nan \/ (v.x = 0 /\ v.y = 0) THEN NaNVec
    ELSE Vec(RoundDiv(v.x * len, Norm(v)), RoundDiv(v.y * len, Norm(v)))

VecAdd(a, b) == IF a.nan \/ b.nan THEN NaNVec ELSE Vec(a.x + b.x, a.y + b.y)
VecSub(a, b) == IF a.nan \/ b.nan THEN NaNVec ELSE Vec(a.x - b.x, a.y - b.y)

\* _get_direction_vector: [1, 0] for a zero length
GetDirectionVector(p1, p2) ==
    LET direction == VecSub(p2, p1)
    IN  IF ~direction.nan /\ direction.x = 0 /\ direction.y = 0
        THEN Vec(Resolution, 0)
        ELSE Normalized(direction, Resolution)

\* _offset_point_perpendicular: point + [direction[1], -direction[0]] * d
OffsetPointPerpendicular(point, direction, d) ==
    VecAdd(point, IF direction.nan THEN NaNVec
                  ELSE Vec(direction.y * d, (0 - direction.x) * d))

\* the offset of point i of _calculate_geometric_offset: the first point by
\* the direction to the next, the last by the direction from the previous,
\* a middle point by the normalized mean of the two
OffsetOfPoint(pts, i, d) ==
    IF i = 1
    THEN OffsetPointPerpendicular(pts[1], GetDirectionVector(pts[1], pts[2]),
                                  d)
    ELSE IF i = Len(pts)
    THEN OffsetPointPerpendicular(pts[i],
                                  GetDirectionVector(pts[i - 1], pts[i]), d)
    ELSE LET dir_in == GetDirectionVector(pts[i - 1], pts[i])
             dir_out == GetDirectionVector(pts[i], pts[i + 1])
             avg_direction == Normalized(VecAdd(dir_in, dir_out), Resolution)
         IN  OffsetPointPerpendicular(pts[i], avg_direction, d)

\* _calculate_geometric_offset
CalculateGeometricOffset(pts, d) ==
    IF Len(pts) < 2 THEN pts
    ELSE [i \in 1 .. Len(pts) |-> OffsetOfPoint(pts, i, d)]

\* the length of the unit vectors a cosine is computed from
CosScale == 10000

\* the cosine of math.pi / 4, of unit vectors of length CosScale
Cos45 == SqrtBetween((CosScale * CosScale) \div 2, 0, 46340) * CosScale

\* the cosines the fixed-point numbers cannot tell from that of 45 degrees
TieBand == (CosScale * CosScale) \div 500

\* _calculate_angle against math.pi / 4: the angle at p2 between p1 - p2
\* and p3 - p2 is above it ("sharp"), below it ("flat"), at it ("tie"), or
\* NaN, one of the vectors being zero or NaN
AngleClass(p1, p2, p3) ==
    LET v1 == VecSub(p1, p2)
        v2 == VecSub(p3, p2)
        u1 == Normalized(v1, CosScale)
        u2 == Normalized(v2, CosScale)
        cos_angle == u1.x * u2.x + u1.y * u2.y
    IN  IF u1.nan \/ u2.nan THEN "nan"
        ELSE IF cos_angle < Cos45 - TieBand THEN "sharp"
        ELSE IF cos_angle > Cos45 + TieBand THEN "flat"
        ELSE "tie"

\* the corners of 45 degrees
TieCorners(pts) ==
    {i \in 2 .. Len(pts) - 1 :
        AngleClass(pts[i - 1], pts[i], pts[i + 1]) = "tie"}

\* abs(angle) > math.pi / 4 at point i; ties are the corners of 45 degrees
\* the floats put above math.pi / 4; NaN is above nothing
IsSharpCorner(pts, i, ties) ==
    \/ AngleClass(pts[i - 1], pts[i], pts[i + 1]) = "sharp"
    \/ AngleClass(pts[i - 1], pts[i], pts[i + 1]) = "tie" /\ i \in ties

\* _calculate_bisector: of opposite vectors, the perpendicular of the first
CalculateBisector(dir1, dir2) ==
    LET bisector == VecAdd(dir1, dir2)
    IN  IF ~bisector.nan /\ bisector.x = 0 /\ bisector.y = 0
        THEN Vec(0 - dir1.y, dir1.x)
        ELSE Normalized(bisector, Resolution)

\* num_steps of _create_corner_loop
NumSteps == 5

\* point i of the loop: p2 + bisector * corner_loop_radius * (1 - i / 5)
ArcPoint(p2, bisector, radius, i) ==
    VecAdd(p2, IF bisector.nan THEN NaNVec
               ELSE Vec(RoundDiv(bisector.x * radius * (NumSteps - i),
                                 NumSteps),
                        RoundDiv(bisector.y * radius * (NumSteps - i),
                                 NumSteps)))

\* the mutation of _create_corner_loop that makes range(num_steps) points
CreateCornerLoopShort(p1, p2, p3, radius) ==
    LET bisector == CalculateBisector(GetDirectionVector(p1, p2),
                                      GetDirectionVector(p2, p3))
    IN  [j \in 1 .. NumSteps |-> ArcPoint(p2, bisector, radius, j - 1)]

\* _create_corner_loop: range(num_steps + 1) points, the last one p2
CreateCornerLoop(p1, p2, p3, radius) ==
    LET bisector == CalculateBisector(GetDirectionVector(p1, p2),
                                      GetDirectionVector(p2, p3))
    IN  [j \in 1 .. NumSteps + 1 |-> ArcPoint(p2, bisector, radius, j - 1)]

RECURSIVE CornerLoopsFrom(_, _, _, _)
\* the loop of _add_corner_loops over the middle points, from point i
CornerLoopsFrom(pts, i, radius, ties) ==
    IF i > Len(pts) - 1 THEN <<>>
    ELSE (IF IsSharpCorner(pts, i, ties)
          THEN CreateCornerLoop(pts[i - 1], pts[i], pts[i + 1], radius)
          ELSE <<pts[i]>>)
         \o CornerLoopsFrom(pts, i + 1, radius, ties)

\* _add_corner_loops
AddCornerLoops(pts, radius, ties) ==
    IF Len(pts) < 3 THEN pts
    ELSE <<pts[1]>> \o CornerLoopsFrom(pts, 2, radius, ties)
         \o <<pts[Len(pts)]>>

\* the points of the polylines of the model, in units of 0.1 mm
GridPoints == (0 .. 2) \X (0 .. 1)

Polylines == UNION {[1 .. n -> GridPoints] : n \in 0 .. MaxPoints}

\* the polyline as the array np.array(points)
PointsArray(pl) ==
    [i \in 1 .. Len(pl) |->
        Vec(pl[i][1] * Resolution, pl[i][2] * Resolution)]

\* KnifeOffsetCompensator.__init__: corner_loop_radius or (offset * 2);
\* 0 stands for the None of the default
NewCompensator ==
    /\ kpc = "init"
    /\ offset' \in {0, 1}
    /\ \E r \in {0, 1} :
           corner_loop_radius' = IF r # 0 THEN r ELSE offset' * 2
    /\ kpc' = "ready"
    /\ UNCHANGED <<points, offset_path, compensated, dragVars, joinVars,
                   optVars, svgVars, moreVars>>

\* compensate_path
CompensatePath ==
    /\ kpc = "ready"
    /\ \E pl \in Polylines :
           /\ points' = PointsArray(pl)
           /\ IF Len(pl) < 2 \/ offset = 0
              THEN /\ offset_path' = <<>>
                   /\ compensated' = PointsArray(pl)
              ELSE LET path == CalculateGeometricOffset(PointsArray(pl),
                                                        offset)
                   IN  /\ offset_path' = path
                       /\ \E ties \in SUBSET TieCorners(path) :
                              compensated' =
                                  AddCornerLoops(path, corner_loop_radius,
                                                 ties)
    /\ kpc' = "done"
    /\ UNCHANGED <<offset, corner_loop_radius, dragVars, joinVars, optVars,
                   svgVars, moreVars>>

(***************************************************************************)
(* GCodeTools: the drag knife offset of a cutting path                     *)
(*                                                                         *)
(* The points are tuples of floats, held as the fixed-point numbers of the *)
(* compensator.  swivel_sensitivity counts tenths, the weights of a swivel *)
(* direction count hundredths.  A line of a cutting path is a G1 line      *)
(* whose X and Y words count 1 / Resolution of 0.1 mm: what the format     *)
(* "{:.6f}" writes of a coordinate is its nearest count.                   *)
(***************************************************************************)
\* _get_direction: (1, 0) for a zero length
GetDirection(p1, p2) ==
    LET dx == p2.x - p1.x
        dy == p2.y - p1.y
    IN  IF dx = 0 /\ dy = 0 THEN Vec(Resolution, 0)
        ELSE Normalized(Vec(dx, dy), Resolution)

\* _offset_perpendicular: point + (direction[1], -direction[0]) * offset
OffsetPerpendicular(point, direction, d) ==
    Vec(point.x + direction.y * d, point.y + (0 - direction.x) * d)

\* _calculate_swivel_offset: the same offset, 90 degrees clockwise
CalculateSwivelOffset(point, direction, d) ==
    Vec(point.x + direction.y * d, point.y + (0 - direction.x) * d)

\* _angle_between_vectors against math.radians(sharp_corner_threshold), of
\* the default threshold of 45 degrees: above it, below it or at it
TurnClass(dir_in, dir_out) ==
    LET u1 == Normalized(dir_in, CosScale)
        u2 == Normalized(dir_out, CosScale)
        dot_product == u1.x * u2.x + u1.y * u2.y
    IN  IF dot_product < Cos45 - TieBand THEN "sharp"
        ELSE IF dot_product > Cos45 + TieBand THEN "flat"
        ELSE "tie"

\* _calculate_swivel_direction; tie_sharp is the side of the threshold the
\* floats put a turn of 45 degrees on
CalculateSwivelDirection(prev_point, curr_point, next_point, sensitivity, tie_sharp) ==
    LET dir_in == GetDirection(prev_point, curr_point)
        dir_out == GetDirection(curr_point, next_point)
        turn == TurnClass(dir_in, dir_out)
        sharp == turn = "sharp" \/ (turn = "tie" /\ tie_sharp)
        weight_out == IF sharp THEN 50 + 3 * sensitivity
                      ELSE 40 + 4 * sensitivity
        weight_in == IF sharp THEN 50 - 3 * sensitivity
                     ELSE 60 - 4 * sensitivity
        swivel_direction ==
            Vec(RoundDiv(weight_in * dir_in.x + weight_out * dir_out.x, 100),
                RoundDiv(weight_in * dir_in.y + weight_out * dir_out.y, 100))
    IN  IF swivel_direction.x = 0 /\ swivel_direction.y = 0
        THEN swivel_direction
        ELSE Normalized(swivel_direction, Resolution)

\* the middle points of a polyline whose turn is one of 45 degrees
TieTurns(pts) ==
    {i \in 2 .. Len(pts) - 1 :
        TurnClass(GetDirection(pts[i - 1], pts[i]),
                  GetDirection(pts[i], pts[i + 1])) = "tie"}

\* _calculate_drag_knife_offset: nothing of no point, a single point offset
\* by the default direction (0, 1), the first point by the direction to the
\* next, the last by the direction from the previous, a middle point by its
\* swivel direction
CalculateDragKnifeOffset(pts, p, ties) ==
    IF Len(pts) < 1 THEN pts
    ELSE IF Len(pts) = 1
    THEN <<OffsetPerpendicular(pts[1], Vec(0, Resolution), p.knife_offset)>>
    ELSE [i \in 1 .. Len(pts) |->
             IF i = 1
             THEN CalculateSwivelOffset(pts[1], GetDirection(pts[1], pts[2]),
                                        p.knife_offset)
             ELSE IF i = Len(pts)
             THEN CalculateSwivelOffset(pts[i],
                                        GetDirection(pts[i - 1], pts[i]),
                                        p.knife_offset)
             ELSE CalculateSwivelOffset(
                      pts[i],
                      CalculateSwivelDirection(pts[i - 1], pts[i], pts[i + 1],
                                               p.swivel_sensitivity,
                                               i \in ties),
                      p.knife_offset)]

\* the points of a cutting path: [pos for _, pos in cutting_path]
PointsOf(path) == [i \in 1 .. Len(path) |-> path[i][2]]

\* _apply_drag_knife_offset: the lines of a path of fewer than 2 lines as
\* they are, else each line with its X and Y words replaced
ApplyDragKnifeOffset(path, p, ties) ==
    IF Len(path) < 2 THEN [i \in 1 .. Len(path) |-> path[i][1]]
    ELSE LET new == CalculateDragKnifeOffset(PointsOf(path), p, ties)
         IN  [i \in 1 .. Len(path) |->
                 [path[i][1] EXCEPT !.x = Num(new[i].x), !.y = Num(new[i].y)]]

\* the swivel_sensitivity values of the model, in tenths: none, the default
\* of 0.6, full
Sensitivities == {0, 6, 10}

\* the cutting path of a polyline, as _apply_simple_2d_offset collects it:
\* each "G1 X.. Y.. F.." line with the position read from it
CuttingPathOf(pts) ==
    [i \in 1 .. Len(pts) |->
        <<G1XY(Num(pts[i].x), Num(pts[i].y), "cutting"), pts[i]>>]

\* GCodeTools.__init__, of the parameters the drag knife offset reads
NewGCodeTools ==
    /\ dpc = "init"
    /\ drag_params' \in [knife_offset : {0, 1},
                         swivel_sensitivity : Sensitivities]
    /\ dpc' = "ready"
    /\ UNCHANGED <<cutting_path, drag_points, offset_points, offset_lines,
                   offset, corner_loop_radius, points, offset_path,
                   compensated, kpc, joinVars, optVars, svgVars,
                   moreVars>>

\* a call of _calculate_drag_knife_offset
DragKnifeOffset ==
    /\ dpc = "ready"
    /\ \E pl \in Polylines :
           /\ drag_points' = PointsArray(pl)
           /\ \E ties \in SUBSET TieTurns(PointsArray(pl)) :
                  offset_points' =
                      CalculateDragKnifeOffset(PointsArray(pl), drag_params,
                                               ties)
    /\ dpc' = "calculated"
    /\ UNCHANGED <<drag_params, cutting_path, offset_lines, offset,
                   corner_loop_radius, points, offset_path, compensated, kpc,
                   joinVars, optVars, svgVars, moreVars>>

\* a call of _apply_drag_knife_offset
DragKnifePath ==
    /\ dpc = "ready"
    /\ \E pl \in Polylines :
           /\ cutting_path' = CuttingPathOf(PointsArray(pl))
           /\ \E ties \in SUBSET TieTurns(PointsArray(pl)) :
                  offset_lines' =
                      ApplyDragKnifeOffset(CuttingPathOf(PointsArray(pl)),
                                           drag_params, ties)
    /\ dpc' = "applied"
    /\ UNCHANGED <<drag_params, drag_points, offset_points, offset,
                   corner_loop_radius, points, offset_path, compensated, kpc,
                   joinVars, optVars, svgVars, moreVars>>

(***************************************************************************)
(* GCodeTools._apply_simple_2d_offset, the knife offset of a stream        *)
(***************************************************************************)
\* the lines the offset of a collected cutting path yields: the X and Y
\* words of its lines and their positions go to _apply_drag_knife_offset in
\* counts, and what it writes is read in units of 0.1 mm, to the nearest
\* unit
OffsetPathLines(path, p, tie_sharp) ==
    LET in_counts ==
            [i \in 1 .. Len(path) |->
                <<[path[i] EXCEPT
                      !.x = Num(ShortFloatOf(path[i].x) * Resolution),
                      !.y = Num(ShortFloatOf(path[i].y) * Resolution)],
                  Vec(ShortFloatOf(path[i].x) * Resolution,
                      ShortFloatOf(path[i].y) * Resolution)>>]
        offset_path_lines ==
            ApplyDragKnifeOffset(in_counts, p,
                                 IF tie_sharp THEN TieTurns(PointsOf(in_counts))
                                 ELSE {})
    IN  IF Len(path) < 2 THEN path
        ELSE [i \in 1 .. Len(path) |->
                 [offset_path_lines[i] EXCEPT
                     !.x = Num(RoundDiv(offset_path_lines[i].x.mant,
                                        Resolution)),
                     !.y = Num(RoundDiv(offset_path_lines[i].y.mant,
                                        Resolution))]]

RECURSIVE Simple2dLoop(_, _, _, _, _, _)
\* the loop of _apply_simple_2d_offset from line i, with the
\* processed_lines, the cutting_path and the in_cutting_mode it has reached:
\* a G1 Z line below material_thickness + 0.5 starts a cutting path, one
\* above material_thickness + 1 ends it, and either puts out the path
\* collected in cutting mode; a Z of 0 is no Z value to the test
\* "if z_value and ..."; the G1 X lines met in cutting mode are collected;
\* every other line is put out as it is met; what is left of a path is put
\* out after the last line.  processed_lines holds each line put out as it
\* is and each path put out for _apply_drag_knife_offset, in their order.
Simple2dLoop(lines, i, processed_lines, path, in_cutting_mode, p) ==
    IF i > Len(lines)
    THEN Append(processed_lines, [offset |-> TRUE, lines |-> path])
    ELSE IF IsG1ZWithF(lines[i])
    THEN LET z_value == ShortFloatOf(lines[i].z)
             starts == z_value # 0
                       /\ z_value < ZOf(p.material_thickness + 5)
             ends == z_value # 0 /\ ~starts
                     /\ z_value > ZOf(p.material_thickness + 10)
             put == <<[offset |-> in_cutting_mode /\ (starts \/ ends),
                       lines |-> IF in_cutting_mode /\ (starts \/ ends)
                                 THEN path ELSE <<>>],
                      [offset |-> FALSE, lines |-> <<lines[i]>>]>>
         IN  Simple2dLoop(lines, i + 1, processed_lines \o put,
                          IF starts \/ (ends /\ in_cutting_mode) THEN <<>>
                          ELSE path,
                          IF starts THEN TRUE
                          ELSE IF ends THEN FALSE ELSE in_cutting_mode, p)
    ELSE LET collected == in_cutting_mode /\ IsG1XWithF(lines[i])
         IN  Simple2dLoop(lines, i + 1,
                          IF collected THEN processed_lines
                          ELSE Append(processed_lines,
                                      [offset |-> FALSE,
                                       lines |-> <<lines[i]>>]),
                          IF collected THEN Append(path, lines[i]) ELSE path,
                          in_cutting_mode, p)

RECURSIVE PutOut(_, _, _)
\* the lines of processed_lines: processed_lines.extend(offset_path) of a
\* path, processed_lines.append(line) of a line
PutOut(processed_lines, p, tie_sharp) ==
    IF processed_lines = <<>> THEN <<>>
    ELSE (IF Head(processed_lines).offset
          THEN OffsetPathLines(Head(processed_lines).lines, p, tie_sharp)
          ELSE Head(processed_lines).lines)
         \o PutOut(Tail(processed_lines), p, tie_sharp)

\* _apply_simple_2d_offset
ApplySimple2dOffset(lines, p, tie_sharp) ==
    IF p.knife_offset = 0 THEN lines
    ELSE PutOut(Simple2dLoop(lines, 1, <<>>, <<>>, FALSE, p), p, tie_sharp)

\* svg_to_gcode with an output_path: the knife offset is applied where
\* knife_offset is not 0
KnifeOffsetStage ==
    /\ spc = "zoffset"
    /\ output_path
    /\ params.knife_offset # 0
    /\ \E tie_sharp \in BOOLEAN :
           processed_gcode' =
               ApplySimple2dOffset(processed_gcode, params, tie_sharp)
    /\ spc' = "knife"
    /\ UNCHANGED <<params, output_path, curves, svg_bounds, pass_num,
                   pass_depth, all_passes_gcode, combined_gcode, out_file,
                   joinVars, optVars, knifeVars, moreVars>>

(***************************************************************************)
(* KnifeInterface.transform_coordinates                                    *)
(***************************************************************************)
\* the largest coordinate of a point or of the bounds, in units of 0.1 mm
MaxCoord == 3

\* the bounds set_svg_bounds is given: min_x <= max_x and min_y <= max_y
BoundsSets ==
    {b \in (0 .. MaxCoord) \X (0 .. MaxCoord) \X (0 .. MaxCoord)
           \X (0 .. MaxCoord) : b[1] <= b[3] /\ b[2] <= b[4]}

\* KnifeInterface.__init__: the flags of the parameters, no bounds yet
NewKnifeInterface ==
    /\ tpc = "init"
    /\ iface' \in [origin_top_left : BOOLEAN, mirror_x : BOOLEAN,
                   mirror_y : BOOLEAN, svg_bounds : {None}]
    /\ tpc' = "new"
    /\ UNCHANGED <<xy, transformed, joinVars, optVars, svgVars, knifeVars,
                   jobVars, toolVars,
                   zoffVars,
                   pjVars,
                   toolpathVars>>

\* set_svg_bounds
SetSvgBounds ==
    /\ tpc = "new"
    /\ iface.svg_bounds = None
    /\ \E b \in BoundsSets : iface' = [iface EXCEPT !.svg_bounds = b]
    /\ UNCHANGED <<xy, transformed, tpc, joinVars, optVars, svgVars,
                   knifeVars, jobVars, toolVars,
                   zoffVars,
                   pjVars,
                   toolpathVars>>

\* a call of transform_coordinates
TransformPoint ==
    /\ tpc = "new"
    /\ \E pt \in (0 .. MaxCoord) \X (0 .. MaxCoord) :
           /\ xy' = pt
           /\ transformed' = TransformCoordinates(iface, iface.svg_bounds, pt)
    /\ tpc' = "done"
    /\ UNCHANGED <<iface, joinVars, optVars, svgVars, knifeVars,
                   jobVars, toolVars,
                   zoffVars,
                   pjVars,
                   toolpathVars>>

(***************************************************************************)
(* KnifeInterface: the tool state over a sequence of calls                 *)
(*                                                                         *)
(* The interface is the one NewKnifeInterface made; its params are the     *)
(* default CuttingParameters but for the flags of iface.  A power counts   *)
(* tenths.                                                                 *)
(***************************************************************************)
Powers == {-1, 0, 5, 10, 11}

\* laser_off
CallLaserOff ==
    /\ tpc = "new"
    /\ is_cutting' = FALSE
    /\ tool_cmd' = "up"
    /\ call' = [name |-> "laser_off", arg |-> <<>>]
    /\ returned' = LaserOff(params)
    /\ raised' = FALSE
    /\ UNCHANGED <<ifaceVars, joinVars, optVars, svgVars, knifeVars, jobVars,
                   zoffVars,
                   pjVars,
                   toolpathVars>>

\* laser_on
CallLaserOn ==
    /\ tpc = "new"
    /\ is_cutting' = TRUE
    /\ tool_cmd' = "down"
    /\ call' = [name |-> "laser_on", arg |-> <<>>]
    /\ returned' = LaserOn(params, pass_depth)
    /\ raised' = FALSE
    /\ UNCHANGED <<ifaceVars, joinVars, optVars, svgVars, knifeVars, jobVars,
                   zoffVars,
                   pjVars,
                   toolpathVars>>

\* set_laser_power: ValueError below 0 and above 1, laser_off for 0, else
\* laser_on
CallSetLaserPower ==
    /\ tpc = "new"
    /\ \E power \in Powers :
           /\ call' = [name |-> "set_laser_power", arg |-> <<power>>]
           /\ IF power < 0 \/ power > 10
              THEN /\ raised' = TRUE
                   /\ returned' = None
                   /\ UNCHANGED <<is_cutting, tool_cmd>>
              ELSE /\ raised' = FALSE
                   /\ is_cutting' = (power # 0)
                   /\ tool_cmd' = IF power = 0 THEN "up" ELSE "down"
                   /\ returned' = IF power = 0 THEN LaserOff(params)
                                  ELSE LaserOn(params, pass_depth)
    /\ UNCHANGED <<ifaceVars, joinVars, optVars, svgVars, knifeVars, jobVars,
                   zoffVars,
                   pjVars,
                   toolpathVars>>

\* rapid_move
CallRapidMove ==
    /\ tpc = "new"
    /\ \E pt \in (0 .. MaxCoord) \X (0 .. MaxCoord) :
           /\ call' = [name |-> "rapid_move", arg |-> pt]
           /\ returned' = RapidMove(iface, iface.svg_bounds, pt)
    /\ raised' = FALSE
    /\ UNCHANGED <<is_cutting, tool_cmd, ifaceVars, joinVars, optVars,
                   svgVars, knifeVars, jobVars,
                   zoffVars,
                   pjVars,
                   toolpathVars>>

\* linear_move
CallLinearMove ==
    /\ tpc = "new"
    /\ \E pt \in (0 .. MaxCoord) \X (0 .. MaxCoord) :
           /\ call' = [name |-> "linear_move", arg |-> pt]
           /\ returned' = LinearMove(iface, iface.svg_bounds, pt, is_cutting)
    /\ raised' = FALSE
    /\ UNCHANGED <<is_cutting, tool_cmd, ifaceVars, joinVars, optVars,
                   svgVars, knifeVars, jobVars,
                   zoffVars,
                   pjVars,
                   toolpathVars>>

(***************************************************************************)
(* GCodeTools._apply_z_offset on streams of tool moves                     *)
(***************************************************************************)
\* the lines of the streams handed to _apply_z_offset: those of the streams
\* of Z moves, their Z values in the units of the pipeline
ZOffsetAlphabet ==
    {[l EXCEPT !.z = [mant |-> ZOf(l.z.mant), exp |-> l.z.exp]] :
         l \in ZLineAlphabet}

ZOffsetStreams == UNION {[1 .. n -> ZOffsetAlphabet] : n \in 0 .. MaxLines}

\* a GCodeTools with some z_offset is handed a stream
GivenZContent ==
    /\ zpc = "init"
    /\ \E z_offset \in ZOffsets, lines \in ZOffsetStreams :
           /\ zarg_offset' = z_offset
           /\ zarg_content' =
                  [k \in 1 .. Len(lines) |-> [lines[k] EXCEPT !.n = k]]
    /\ zpc' = "given"
    /\ UNCHANGED <<zret, joinVars, optVars, svgVars, knifeVars, ifaceVars,
                   jobVars, toolVars, pjVars,
                   toolpathVars>>

\* _apply_z_offset(gcode_content)
CallApplyZOffset ==
    /\ zpc = "given"
    /\ zret' = ApplyZOffset(zarg_content, zarg_offset)
    /\ zpc' = "done"
    /\ UNCHANGED <<zarg_offset, zarg_content, joinVars, optVars, svgVars,
                   knifeVars, ifaceVars, jobVars, toolVars, pjVars,
                   toolpathVars>>

(***************************************************************************)
(* The legacy PathJoiner (src/gcodetools.py)                               *)
(*                                                                         *)
(* A curve is the sequence of its points, empty for a curve without        *)
(* points.  A joined curve holds its points, the original_index it was     *)
(* made with, and the indices of the input curves it was made of (srcs,    *)
(* which no code reads).                                                   *)
(***************************************************************************)
\* the largest number of curves join_paths is given
MaxLegacyCurves == 3

\* the curves of the model: none, one or two of the endpoints
LegacyCurves == UNION {[1 .. n -> Points] : n \in 0 .. 2}

LegacyCurveLists ==
    UNION {[1 .. n -> LegacyCurves] : n \in 0 .. MaxLegacyCurves}

\* _points_close
PointsClose(p1, p2) ==
    IF p1 = None \/ p2 = None THEN FALSE
    ELSE WithinTolerance(Dist2(p1, p2))

\* _check_connection: the connection type, "none" for None
CheckConnection(end1, start2, end2) ==
    IF end1 = None \/ start2 = None \/ end2 = None THEN "none"
    ELSE IF PointsClose(end1, start2) THEN "end_to_start"
    ELSE IF PointsClose(end1, end2) THEN "end_to_end"
    ELSE IF PointsClose(end1, start2) THEN "start_to_start"
    ELSE IF PointsClose(end1, end2) THEN "start_to_end"
    ELSE "none"

\* points[::-1]
ReversedPoints(pts) == [k \in 1 .. Len(pts) |-> pts[Len(pts) + 1 - k]]

RECURSIVE PathData(_, _)
\* path_data: an entry for every curve that has points, from curve i on
PathData(cs, i) ==
    IF i > Len(cs) THEN <<>>
    ELSE (IF cs[i] # <<>>
          THEN <<[index |-> i, points |-> cs[i], start |-> cs[i][1],
                  end |-> cs[i][Len(cs[i])]]>>
          ELSE <<>>)
         \o PathData(cs, i + 1)

\* _create_curve_from_points(joined_path, current_path['index'])
SimpleCurve(pts, original_index, srcs) ==
    [points |-> pts, original_index |-> original_index, srcs |-> srcs]

RECURSIVE ExtendJoinedPath(_, _, _, _)
\* the "while True" loop: the first remaining path that _check_connection
\* connects to current_path['end'] is taken out of remaining_paths and added
\* to joined_path, until none connects
ExtendJoinedPath(joined_path, current_end, remaining_paths, srcs) ==
    LET found == {i \in 1 .. Len(remaining_paths) :
                     CheckConnection(current_end, remaining_paths[i].start,
                                     remaining_paths[i].end) # "none"}
    IN  IF found = {}
        THEN [joined_path |-> joined_path, remaining_paths |-> remaining_paths,
              srcs |-> srcs]
        ELSE LET i == Min(found)
                 other_path == remaining_paths[i]
                 connection_type ==
                     CheckConnection(current_end, other_path.start,
                                     other_path.end)
                 extended ==
                     CASE connection_type = "end_to_start" ->
                              joined_path \o Tail(other_path.points)
                       [] connection_type = "end_to_end" ->
                              joined_path
                              \o Tail(ReversedPoints(other_path.points))
                       [] connection_type = "start_to_start" ->
                              ReversedPoints(joined_path)
                              \o Tail(other_path.points)
                       [] connection_type = "start_to_end" ->
                              joined_path \o Tail(other_path.points)
             IN  ExtendJoinedPath(extended, extended[Len(extended)],
                                  Pop(remaining_paths, i),
                                  srcs \cup {other_path.index})

RECURSIVE LegacyJoinLoop(_, _)
\* the "while remaining_paths" loop
LegacyJoinLoop(remaining_paths, joined) ==
    IF remaining_paths = <<>> THEN joined
    ELSE LET current_path == Head(remaining_paths)
             chain == ExtendJoinedPath(current_path.points, current_path.end,
                                       Tail(remaining_paths),
                                       {current_path.index})
         IN  LegacyJoinLoop(chain.remaining_paths,
                            Append(joined,
                                   SimpleCurve(chain.joined_path,
                                               current_path.index,
                                               chain.srcs)))

\* PathJoiner.join_paths: the curves themselves where none has points
LegacyJoinPaths(cs) ==
    IF PathData(cs, 1) = <<>>
    THEN [i \in 1 .. Len(cs) |-> SimpleCurve(cs[i], i, {i})]
    ELSE LegacyJoinLoop(PathData(cs, 1), <<>>)

\* a PathJoiner is given curves
GivenCurves ==
    /\ pjpc = "init"
    /\ pj_curves' \in LegacyCurveLists
    /\ pjpc' = "given"
    /\ UNCHANGED <<pj_joined, joinVars, optVars, svgVars, knifeVars,
                   ifaceVars, jobVars, toolVars, zoffVars, toolpathVars>>

\* join_paths(curves)
CallLegacyJoinPaths ==
    /\ pjpc = "given"
    /\ pj_joined' = LegacyJoinPaths(pj_curves)
    /\ pjpc' = "joined"
    /\ UNCHANGED <<pj_curves, joinVars, optVars, svgVars, knifeVars,
                   ifaceVars, jobVars, toolVars, zoffVars, toolpathVars>>

(***************************************************************************)
(* DragKnifeToolpath (src/svg2gcode.py)                                    *)
(*                                                                         *)
(* X and Y count units of 0.1 mm, angles are in degrees.  The paths of the *)
(* model run along the axes, so that every angle is a multiple of 90       *)
(* degrees and the sines and cosines are 0, 1 and -1: the X and Y words,   *)
(* written with four decimals, are whole units.  z_safe and z_cut count    *)
(* units of 0.0001 mm and a Z word, written with three decimals, units of  *)
(* 0.001 mm.  The tag of a line is the index of the path it was made for,  *)
(* which no code reads.                                                    *)
(***************************************************************************)
\* the largest number of paths generate_toolpath is given
MaxToolpaths == 2

\* the DragKnifeConfig objects of the model: offset 1 mm, lead_in 2 mm, a
\* corner_threshold of 60 or 120 degrees, z_safe 5 mm or 5.0004 mm, z_cut
\* -0.5004 mm
Configs ==
    [offset : {10}, lead_in : {20}, corner_threshold : {60, 120},
     z_safe : {50000, 50004}, z_cut : {-5004}]

\* the points of the paths
ToolpathPoints == {<<0, 0>>, <<10, 0>>, <<10, 10>>}

\* consecutive points are on a line along an axis, or the same point
AlongAxes(path) ==
    \A i \in 1 .. Len(path) - 1 :
        path[i][1] = path[i + 1][1] \/ path[i][2] = path[i + 1][2]

\* the paths of the model: up to 3 points
Toolpaths ==
    {path \in UNION {[1 .. n -> ToolpathPoints] : n \in 0 .. 3} :
        AlongAxes(path)}

ToolpathLists == UNION {[1 .. n -> Toolpaths] : n \in 0 .. MaxToolpaths}

\* Point.angle_to: math.atan2(other.y - self.y, other.x - self.x), in
\* degrees, of two points on a line along an axis; atan2(0, 0) is 0
AngleTo(p, q) ==
    IF q[2] = p[2] THEN (IF q[1] >= p[1] THEN 0 ELSE 180)
    ELSE IF q[2] > p[2] THEN 90 ELSE -90

\* Point.offset(distance, angle), of a multiple of 90 degrees
PointOffset(p, distance, angle) ==
    CASE angle = 0 -> <<p[1] + distance, p[2]>>
      [] angle = 90 -> <<p[1], p[2] + distance>>
      [] angle = 180 -> <<p[1] - distance, p[2]>>
      [] angle = -90 -> <<p[1], p[2] - distance>>

\* _calculate_corner_angle: the difference of the two angles, brought into
\* -180 .. 180
CalculateCornerAngle(p1, p2, p3) ==
    LET diff == AngleTo(p2, p3) - AngleTo(p1, p2)
    IN  IF diff > 180 THEN diff - 360
        ELSE IF diff < -180 THEN diff + 360 ELSE diff

\* _add_corner_compensation: the overcut point past the corner, then the
\* corner
AddCornerCompensation(result, prev, corner, config) ==
    result \o <<PointOffset(corner, config.offset * 2, AngleTo(prev, corner)),
                corner>>

RECURSIVE CompensatedFrom(_, _, _, _)
\* the loop over the points of the path, from point i on
CompensatedFrom(path, i, result, config) ==
    IF i > Len(path) THEN result
    ELSE CompensatedFrom(
             path, i + 1,
             IF i > 1 /\ i < Len(path)
             THEN LET corner_angle ==
                          CalculateCornerAngle(path[i - 1], path[i],
                                               path[i + 1])
                      size == IF corner_angle < 0 THEN 0 - corner_angle
                              ELSE corner_angle
                  IN  IF size > config.corner_threshold
                      THEN AddCornerCompensation(result, path[i - 1], path[i],
                                                 config)
                      ELSE Append(result, path[i])
             ELSE Append(result, path[i]),
             config)

\* _generate_compensated_path: the lead-in point, the points with their
\* corner compensation, the lead-out point
GenerateCompensatedPath(path, config) ==
    IF Len(path) < 2 THEN path
    ELSE LET lead_in_point ==
                 PointOffset(path[1], 0 - config.lead_in,
                             AngleTo(path[1], path[2]))
             lead_out_point ==
                 PointOffset(path[Len(path)], config.lead_in,
                             AngleTo(path[Len(path) - 1], path[Len(path)]))
         IN  Append(CompensatedFrom(path, 1, <<lead_in_point>>, config),
                    lead_out_point)

\* f"{z:.3f}": a Z of units of 0.0001 mm, in units of 0.001 mm
Format3(z) ==
    IF z >= 0 THEN Num(RoundDiv(z, 10)) ELSE Num(0 - RoundDiv(0 - z, 10))

\* "G0 Z{z:.3f}", "G1 Z{z:.3f}", "G0 X{x:.4f} Y{y:.4f}", "G1 X.. Y.."
ZWord(g, z) == Line(g, "Z", NoNum, NoNum, Format3(z), "none")
XYWord(g, pt) == Line(g, "XY", Num(pt[1]), Num(pt[2]), NoNum, "none")

\* a line without X, Y or Z: a comment, "G21", "G90", "F{feed_rate}", "M2"
Word(g) == Line(g, "none", NoNum, NoNum, NoNum, "none")

\* the lines of a path without the raise of the knife after its last cut
CutLinesNoRaise(cpath, config) ==
    IF cpath = <<>> THEN <<>>
    ELSE <<XYWord("G0", cpath[1]), ZWord("G1", config.z_cut)>>
         \o [k \in 1 .. Len(cpath) - 1 |->
                 XYWord("G1", cpath[k + 1])]
         \o <<BlankLine>>

\* the lines of a compensated path: the rapid to its start, the knife
\* lowered, the cuts, the knife raised
CutLines(cpath, config) ==
    IF cpath = <<>> THEN <<>>
    ELSE <<XYWord("G0", cpath[1]), ZWord("G1", config.z_cut)>>
         \o [k \in 1 .. Len(cpath) - 1 |->
                 XYWord("G1", cpath[k + 1])]
         \o <<ZWord("G0", config.z_safe), BlankLine>>

RECURSIVE PathsFrom(_, _, _)
\* the loop over the paths, from path path_idx on: a path of fewer than 2
\* points is passed over
PathsFrom(ps, path_idx, config) ==
    IF path_idx > Len(ps) THEN <<>>
    ELSE (IF Len(ps[path_idx]) < 2 THEN <<>>
          ELSE Tagged(<<Word("comment")>>
                      \o CutLines(GenerateCompensatedPath(ps[path_idx],
                                                          config),
                                  config),
                      path_idx, 0))
         \o PathsFrom(ps, path_idx + 1, config)

\* generate_toolpath: header, paths, footer
GenerateToolpath(ps, config) ==
    <<Word("comment"), Word("comment"), Word("comment"), Word("G21"),
      Word("G90"), ZWord("G0", config.z_safe), Word("F"), BlankLine>>
    \o PathsFrom(ps, 1, config)
    \o <<Word("comment"), ZWord("G0", config.z_safe), Word("M2")>>

\* a DragKnifeToolpath of some config is given paths
GivenToolpaths ==
    /\ gpc = "init"
    /\ tp_config' \in Configs
    /\ tp_paths' \in ToolpathLists
    /\ gpc' = "given"
    /\ UNCHANGED <<tp_gcode, joinVars, optVars, svgVars, knifeVars, ifaceVars,
                   jobVars, toolVars, zoffVars, pjVars>>

\* generate_toolpath(paths)
CallGenerateToolpath ==
    /\ gpc = "given"
    /\ tp_gcode' = GenerateToolpath(tp_paths, tp_config)
    /\ gpc' = "generated"
    /\ UNCHANGED <<tp_config, tp_paths, joinVars, optVars, svgVars, knifeVars,
                   ifaceVars, jobVars, toolVars, zoffVars, pjVars>>

(***************************************************************************)
(* Two svg_to_gcode calls on one file system                               *)
(*                                                                         *)
(* A file name is the sequence of its parts, <<"a", ".svg">> for a.svg,    *)
(* so that str.replace acts on it as it does on the text.  The content of  *)
(* a file records which drawing it was made from and which stages it went  *)
(* through; each stage is a function of what the step before it read.      *)
(***************************************************************************)
Jobs == {1, 2}

\* str.replace(old, new) on a file name
RECURSIVE Replace(_, _, _)
Replace(name, old, new) ==
    IF name = <<>> THEN <<>>
    ELSE (IF name[1] = old THEN new ELSE <<name[1]>>)
         \o Replace(Tail(name), old, new)

\* svg_path.replace('.svg', '_joined_temp.svg')
TempSvgPath(svg_path) == Replace(svg_path, ".svg", <<"_joined_temp", ".svg">>)

\* output_path.replace('.gcode', '_joined_paths.svg')
JoinedSvgPath(out) == Replace(out, ".gcode", <<"_joined_paths", ".svg">>)

\* the names a job can be given as its svg_path and as its output_path
InputNames ==
    {<<"a", ".svg">>, <<"b", ".svg">>, <<"a", "_joined_temp", ".svg">>,
     <<"a", "_joined_paths", ".svg">>}
OutputNames == {<<"a", ".gcode">>, <<"b", ".gcode">>}

\* the names one job alone can be given as its svg_path: a.svg, and
\* drawing.SVG, which holds no '.svg'
SvgNames == {<<"a", ".svg">>, <<"drawing", ".SVG">>}

\* every file name a job can touch
FileNames ==
    InputNames \cup SvgNames \cup OutputNames
    \cup {TempSvgPath(n) : n \in InputNames \cup SvgNames}
    \cup {JoinedSvgPath(n) : n \in OutputNames}

\* no file of that name, or no value yet
Absent == [form |-> "absent", of |-> "", joined |-> FALSE, bounds |-> ""]

\* an SVG file of drawing d as it was given
Drawing(d) == [form |-> "svg", of |-> d, joined |-> FALSE, bounds |-> ""]

\* load_svg, join_paths and save_svg: the joined paths of an SVG file
JoinedSvg(content) == [content EXCEPT !.joined = TRUE]

\* the compiled stream of the parsed curves under the computed bounds
CompiledGcode(parsed, bounds) ==
    [form |-> "gcode", of |-> parsed.of, joined |-> parsed.joined,
     bounds |-> bounds]

\* origin setting, home command, Z offset, knife offset and lift
\* optimization of a stream
PostProcessed(gcode) == [gcode EXCEPT !.form = "processed"]

\* a job that has raised
Failed(job) == [job EXCEPT !.pc = "failed"]

\* the file the job parses
ProcessingSvgPath(job) ==
    IF job.join_paths THEN TempSvgPath(job.svg_path) ELSE job.svg_path

\* if not os.path.exists(svg_path): raise FileNotFoundError
CheckExists(job, files) ==
    [files |-> files,
     job |-> IF files[job.svg_path] = Absent THEN Failed(job)
             ELSE [job EXCEPT !.pc = IF job.join_paths THEN "load"
                                     ELSE "bounds"]]

\* svg_joiner.load_svg(svg_path), which raises when the file is missing,
\* and svg_joiner.join_paths()
LoadAndJoin(job, files) ==
    [files |-> files,
     job |-> IF files[job.svg_path] = Absent THEN Failed(job)
             ELSE [job EXCEPT !.paths = JoinedSvg(files[job.svg_path]),
                              !.pc = "save"]]

\* svg_joiner.save_svg(temp_svg_path)
SaveTemp(job, files) ==
    [files |-> [files EXCEPT ![TempSvgPath(job.svg_path)] = job.paths],
     job |-> [job EXCEPT !.pc = IF job.output_path # None THEN "copy"
                                ELSE "bounds"]]

\* shutil.copy2(temp_svg_path, joined_svg_path), when there is an output_path
CopyJoined(job, files) ==
    IF files[TempSvgPath(job.svg_path)] = Absent
    THEN [files |-> files, job |-> Failed(job)]
    ELSE [files |-> [files EXCEPT ![JoinedSvgPath(job.output_path)] =
                                      files[TempSvgPath(job.svg_path)]],
          job |-> [job EXCEPT !.pc = "bounds"]]

\* _calculate_svg_bounds(processing_svg_path): the default bounds when the
\* file cannot be read
ReadBounds(job, files) ==
    [files |-> files,
     job |-> [job EXCEPT
                 !.bounds = IF files[ProcessingSvgPath(job)] = Absent
                            THEN "default"
                            ELSE files[ProcessingSvgPath(job)].of,
                 !.pc = "parse"]]

\* curves = parse_file(processing_svg_path)
ParseFile(job, files) ==
    [files |-> files,
     job |-> IF files[ProcessingSvgPath(job)] = Absent THEN Failed(job)
             ELSE [job EXCEPT !.curves = files[ProcessingSvgPath(job)],
                              !.pc = IF job.join_paths THEN "remove"
                                     ELSE "write"]]

\* if os.path.exists(temp_svg_path): os.remove(temp_svg_path)
RemoveTemp(job, files) ==
    [files |-> [files EXCEPT ![TempSvgPath(job.svg_path)] = Absent],
     job |-> [job EXCEPT !.pc = "write"]]

\* the compilation, then the first write of output_path, or without an
\* output_path the post-processing and the return
CompileAndWrite(job, files) ==
    LET combined == CompiledGcode(job.curves, job.bounds)
    IN  IF job.output_path # None
        THEN [files |-> [files EXCEPT ![job.output_path] = combined],
              job |-> [job EXCEPT !.pc = "read"]]
        ELSE [files |-> files,
              job |-> [job EXCEPT !.result = PostProcessed(combined),
                                  !.pc = "done"]]

\* gcode_content = self._read_gcode_file(output_path)
ReadGcodeFile(job, files) ==
    [files |-> files,
     job |-> IF files[job.output_path] = Absent THEN Failed(job)
             ELSE [job EXCEPT !.gcode_content = files[job.output_path],
                              !.pc = "rewrite"]]

\* the post-processing, the second write of output_path, and the return
Rewrite(job, files) ==
    LET processed == PostProcessed(job.gcode_content)
    IN  [files |-> [files EXCEPT ![job.output_path] = processed],
         job |-> [job EXCEPT !.result = processed, !.pc = "done"]]

\* the next step of a running job
Step(job, files) ==
    CASE job.pc = "exists" -> CheckExists(job, files)
      [] job.pc = "load" -> LoadAndJoin(job, files)
      [] job.pc = "save" -> SaveTemp(job, files)
      [] job.pc = "copy" -> CopyJoined(job, files)
      [] job.pc = "bounds" -> ReadBounds(job, files)
      [] job.pc = "parse" -> ParseFile(job, files)
      [] job.pc = "remove" -> RemoveTemp(job, files)
      [] job.pc = "write" -> CompileAndWrite(job, files)
      [] job.pc = "read" -> ReadGcodeFile(job, files)
      [] job.pc = "rewrite" -> Rewrite(job, files)

Terminal == {"done", "failed"}

RECURSIVE RunAlone(_, _)
\* a job run from its call to its return or exception with no other job
RunAlone(job, files) ==
    IF job.pc \in Terminal THEN [files |-> files, job |-> job]
    ELSE RunAlone(Step(job, files).job, Step(job, files).files)

\* a job about to call svg_to_gcode(svg_path, output_path)
NewJob(svg_path, out, join_paths, d) ==
    [svg_path |-> svg_path, output_path |-> out, join_paths |-> join_paths,
     drawing |-> d, pc |-> "exists", paths |-> Absent, bounds |-> "",
     curves |-> Absent, gcode_content |-> Absent, result |-> Absent]

\* no job yet
NoJob == [NewJob(<<>>, None, FALSE, "") EXCEPT !.pc = "none"]

\* the files before either job starts: the two input files
InputFiles(js) ==
    [n \in FileNames |->
        IF \E j \in Jobs : js[j].svg_path = n
        THEN Drawing(js[CHOOSE j \in Jobs : js[j].svg_path = n].drawing)
        ELSE Absent]

\* two GCodeTools objects are given different input files and different
\* output files, or no output file
SubmitJobs ==
    /\ \A j \in Jobs : jobs[j].pc = "none"
    /\ \E in1, in2 \in InputNames :
       \E out1, out2 \in OutputNames \cup {None} :
       \E join1, join2 \in BOOLEAN :
           /\ in1 # in2
           /\ out1 = None \/ out1 # out2
           /\ jobs' = [j \in Jobs |->
                          IF j = 1 THEN NewJob(in1, out1, join1, "A")
                          ELSE NewJob(in2, out2, join2, "B")]
           /\ fs' = InputFiles(jobs')
    /\ UNCHANGED <<joinVars, optVars, svgVars, knifeVars, ifaceVars,
                   toolVars,
                   zoffVars,
                   pjVars,
                   toolpathVars>>

\* one GCodeTools object is given an input file, and an output file or
\* none; the directory holds the input file
SubmitOneJob ==
    /\ \A j \in Jobs : jobs[j].pc = "none"
    /\ \E svg_path \in SvgNames, out \in OutputNames \cup {None},
          join_paths \in BOOLEAN, d \in {"A", "B"} :
           /\ jobs' = [jobs EXCEPT ![1] = NewJob(svg_path, out, join_paths, d)]
           /\ fs' = InputFiles(jobs')
    /\ UNCHANGED <<joinVars, optVars, svgVars, knifeVars, ifaceVars,
                   toolVars, zoffVars,
                   pjVars,
                   toolpathVars>>

\* job j at step pc takes that step
JobStep(j, pc) ==
    /\ jobs[j].pc = pc
    /\ jobs' = [jobs EXCEPT ![j] = Step(jobs[j], fs).job]
    /\ fs' = Step(jobs[j], fs).files
    /\ UNCHANGED <<joinVars, optVars, svgVars, knifeVars, ifaceVars,
                   toolVars,
                   zoffVars,
                   pjVars,
                   toolpathVars>>

JobCheckExists == \E j \in Jobs : JobStep(j, "exists")
JobLoadAndJoin == \E j \in Jobs : JobStep(j, "load")
JobSaveTemp == \E j \in Jobs : JobStep(j, "save")
JobCopyJoined == \E j \in Jobs : JobStep(j, "copy")
JobReadBounds == \E j \in Jobs : JobStep(j, "bounds")
JobParseFile == \E j \in Jobs : JobStep(j, "parse")
JobRemoveTemp == \E j \in Jobs : JobStep(j, "remove")
JobCompileAndWrite == \E j \in Jobs : JobStep(j, "write")
JobReadBack == \E j \in Jobs : JobStep(j, "read")
JobRewrite == \E j \in Jobs : JobStep(j, "rewrite")

(***************************************************************************)
(* Specifications                                                          *)
(***************************************************************************)
\* the state after construction: a joiner with no paths
\* (SVGPathJoinerRemoveMRegex.__init__), no G-code handed over yet
Init ==
    /\ paths = <<>>
    /\ joined_paths = <<>>
    /\ jpc = "init"
    /\ gcode_content = <<>>
    /\ optimized_lines = <<>>
    /\ final_lines = <<>>
    /\ cleaned_lines = <<>>
    /\ opc = "init"
    /\ params = [material_thickness |-> 2, number_of_passes |-> 1,
                 z_offset |-> 0, knife_offset |-> 0,
                 swivel_sensitivity |-> 6, origin_top_left |-> TRUE,
                 mirror_x |-> FALSE, mirror_y |-> FALSE,
                 z_safe_height |-> None]
    /\ output_path = FALSE
    /\ curves = <<>>
    /\ svg_bounds = <<0, 0, 0, 0>>
    /\ pass_num = 0
    /\ pass_depth = 0
    /\ all_passes_gcode = <<>>
    /\ combined_gcode = <<>>
    /\ processed_gcode = <<>>
    /\ out_file = NoFile
    /\ spc = "init"
    /\ offset = 0
    /\ corner_loop_radius = 0
    /\ points = <<>>
    /\ offset_path = <<>>
    /\ compensated = <<>>
    /\ kpc = "init"
    /\ drag_params = [knife_offset |-> 0, swivel_sensitivity |-> 6]
    /\ cutting_path = <<>>
    /\ drag_points = <<>>
    /\ offset_points = <<>>
    /\ offset_lines = <<>>
    /\ dpc = "init"
    /\ iface = [origin_top_left |-> TRUE, mirror_x |-> FALSE,
                mirror_y |-> FALSE, svg_bounds |-> None]
    /\ xy = <<0, 0>>
    /\ transformed = <<0, 0>>
    /\ tpc = "init"
    /\ jobs = [j \in Jobs |-> NoJob]
    /\ fs = [n \in FileNames |-> Absent]
    /\ is_cutting = FALSE
    /\ tool_cmd = "none"
    /\ call = [name |-> "__init__", arg |-> <<>>]
    /\ returned = None
    /\ raised = FALSE
    /\ zarg_offset = 0
    /\ zarg_content = <<>>
    /\ zret = <<>>
    /\ zpc = "init"
    /\ pj_curves = <<>>
    /\ pj_joined = <<>>
    /\ pjpc = "init"
    /\ tp_config = [offset |-> 10, lead_in |-> 20, corner_threshold |-> 60,
                    z_safe |-> 50000, z_cut |-> -5004]
    /\ tp_paths = <<>>
    /\ tp_gcode = <<>>
    /\ gpc = "init"

NextJoin == LoadSvg \/ JoinPaths

SpecJoin == Init /\ [][NextJoin]_vars

NextOpt == GivenGcode \/ OptimizeToolLifts

SpecOpt == Init /\ [][NextOpt]_vars

\* the optimizer on streams of tool moves
NextZMoves == GivenZMoves \/ OptimizeToolLifts

SpecZMoves == Init /\ [][NextZMoves]_vars

NextSvg ==
    \/ GCodeToolsInit \/ ParseSvg \/ MakeCompiler \/ CompileOnePass
    \/ CombinePasses \/ SinglePass \/ WriteCombined \/ ReadBack
    \/ TakeString \/ AddOrigin \/ AddHome \/ ApplyZ \/ KnifeOffsetStage
    \/ OptimizeLifts
    \/ WriteProcessed \/ ReturnString \/ StageFails \/ WriteFails

SpecSvg == Init /\ [][NextSvg]_vars

\* the jobs of every parameter value, the invalid ones among them
NextSvgAny == NextSvg \/ GCodeToolsInitInvalid \/ DivisionFails

SpecSvgAny == Init /\ [][NextSvgAny]_vars

NextKnife == NewCompensator \/ CompensatePath

SpecKnife == Init /\ [][NextKnife]_vars

NextDrag == NewGCodeTools \/ DragKnifeOffset \/ DragKnifePath

SpecDrag == Init /\ [][NextDrag]_vars

NextTransform == NewKnifeInterface \/ SetSvgBounds \/ TransformPoint

SpecTransform == Init /\ [][NextTransform]_vars

\* a KnifeInterface and any sequence of tool and move calls on it
NextTool ==
    \/ NewKnifeInterface \/ CallLaserOff \/ CallLaserOn \/ CallSetLaserPower
    \/ CallRapidMove \/ CallLinearMove

SpecTool == Init /\ [][NextTool]_vars

\* _apply_z_offset on streams of tool moves
NextZOffset == GivenZContent \/ CallApplyZOffset

SpecZOffset == Init /\ [][NextZOffset]_vars

\* two jobs, their steps interleaved in every order
NextJobs ==
    \/ SubmitJobs \/ JobCheckExists \/ JobLoadAndJoin \/ JobSaveTemp
    \/ JobCopyJoined \/ JobReadBounds \/ JobParseFile \/ JobRemoveTemp
    \/ JobCompileAndWrite \/ JobReadBack \/ JobRewrite

SpecJobs == Init /\ [][NextJobs]_vars

\* the legacy PathJoiner on lists of curves
NextLegacyJoin == GivenCurves \/ CallLegacyJoinPaths

SpecLegacyJoin == Init /\ [][NextLegacyJoin]_vars

\* the standalone converter on lists of paths
NextToolpath == GivenToolpaths \/ CallGenerateToolpath

SpecToolpath == Init /\ [][NextToolpath]_vars

\* one job on a file system of its own
NextOneJob ==
    \/ SubmitOneJob \/ JobCheckExists \/ JobLoadAndJoin \/ JobSaveTemp
    \/ JobCopyJoined \/ JobReadBounds \/ JobParseFile \/ JobRemoveTemp
    \/ JobCompileAndWrite \/ JobReadBack \/ JobRewrite

SpecOneJob == Init /\ [][NextOneJob]_vars

(***************************************************************************)
(* Properties of the joiner                                                *)
(***************************************************************************)
\* the input paths that contributed a segment to an output path
SrcsOf(path) == {path[k].src : k \in 1 .. Len(path)}

\* all segments of all output paths, in output order
RECURSIVE Flatten(_)
Flatten(ps) == IF ps = <<>> THEN <<>> ELSE Head(ps) \o Flatten(Tail(ps))

\* seg is the loaded segment orig, as loaded or reversed
SameSegment(seg, orig) ==
    /\ seg.src = orig.src
    /\ seg.kind = orig.kind
    /\ \/ seg.rev = FALSE /\ seg.start = orig.start /\ seg.end = orig.end
       \/ seg.rev = TRUE /\ seg.start = orig.end /\ seg.end = orig.start

\* one of the four endpoint pairs of two paths is within tolerance
EndpointsTouch(p, q) ==
    \E a \in {p[1].start, p[Len(p)].end}, b \in {q[1].start, q[Len(q)].end} :
        Dist2(a, b) <= Tolerance * Tolerance

\* C1 (join closure): whenever two input paths have one of their four
\* endpoint pairs within tolerance, one output path of join_paths holds the
\* segments of both.
C1_JoinClosure ==
    jpc = "joined" =>
        \A i, j \in 1 .. Len(paths) :
            (i < j /\ EndpointsTouch(paths[i], paths[j])) =>
                \E k \in 1 .. Len(joined_paths) :
                    {i, j} \subseteq SrcsOf(joined_paths[k])

\* C2 (segment conservation): every segment of every input path appears
\* exactly once, as loaded or reversed and with its variant, among the
\* segments of the output paths, and the output holds no other segment.
C2_SegmentsConserved ==
    jpc = "joined" =>
        LET out == Flatten(joined_paths)
        IN  /\ Len(out) = Len(Flatten(paths))
            /\ \A i \in 1 .. Len(paths) :
                   Cardinality({k \in 1 .. Len(out) :
                                   SameSegment(out[k], paths[i][1])}) = 1

\* no endpoint of a path is within tolerance of an endpoint of another path
FullyDisjoint(ps) ==
    \A i, j \in 1 .. Len(ps) : i # j => ~EndpointsTouch(ps[i], ps[j])

\* C9 (disjoint paths pass through): N paths no two of which connect are
\* returned as N paths, each the input path unchanged, in input order.
C9_DisjointPassThrough ==
    (jpc = "joined" /\ FullyDisjoint(paths)) => joined_paths = paths

\* three paths, no two of which connect, were joined
C9_Witness ==
    jpc = "joined" /\ Len(paths) = MaxPaths /\ FullyDisjoint(paths)

(***************************************************************************)
(* Properties of the optimizer                                             *)
(***************************************************************************)
\* the line numbers of the lines of a stream
LineNos(S) == {S[k].n : k \in 1 .. Len(S)}

\* the XY position a move commands the machine to
Target(l) == <<FloatOf(l.x), FloatOf(l.y)>>

IsToolUp(l) == l.axis = "Z" /\ FloatOf(l.z) >= SafeZ
IsToolDown(l) == l.axis = "Z" /\ FloatOf(l.z) < SafeZ

RECURSIVE ToolDownAfter(_, _)
\* the knife is down after the first k lines of S: the last Z move lowered it
ToolDownAfter(S, k) ==
    IF k = 0 THEN FALSE
    ELSE IF S[k].axis = "Z" THEN IsToolDown(S[k])
         ELSE ToolDownAfter(S, k - 1)

\* line k of S is a linear XY move made with the knife down
IsCuttingMove(S, k) ==
    S[k].g = "G1" /\ S[k].axis = "XY" /\ ToolDownAfter(S, k - 1)

RECURSIVE PositionAfter(_, _)
\* the XY position of the machine after the first k lines of S: the target
\* of the last XY move of any kind, None before the first
PositionAfter(S, k) ==
    IF k = 0 THEN None
    ELSE IF S[k].axis = "XY" THEN Target(S[k])
         ELSE PositionAfter(S, k - 1)

SamePlace(p, q) ==
    IF p = None \/ q = None THEN p = q
    ELSE Dist2(p, q) <= Tolerance * Tolerance

\* the line numbers of the cutting moves of S, in stream order
CuttingMoves(S) ==
    LET idx == SelectSeq([k \in 1 .. Len(S) |-> k],
                         LAMBDA k : IsCuttingMove(S, k))
    IN  [j \in 1 .. Len(idx) |-> S[idx[j]].n]

\* C3 (tool-lift elision): wherever a cutting move that ended at q is
\* followed by ToolUp, a repositioning move to p (a rapid_move or a tool-up
\* linear_move) and ToolDown, the first pass drops the ToolUp and the
\* repositioning move and keeps the ToolDown if p is within tolerance of q,
\* and keeps both the ToolUp and the repositioning move otherwise.
C3_LiftElision ==
    opc = "optimized" =>
        \A i \in 1 .. Len(gcode_content) - 3 :
            LET S == gcode_content
                kept == LineNos(optimized_lines)
            IN  (/\ IsCuttingMove(S, i)
                 /\ IsToolUp(S[i + 1])
                 /\ S[i + 2].axis = "XY"
                 /\ IsToolDown(S[i + 3]))
                => IF Dist2(Target(S[i + 2]), Target(S[i]))
                          <= Tolerance * Tolerance
                   THEN (i + 1) \notin kept /\ (i + 2) \notin kept
                        /\ (i + 3) \in kept
                   ELSE (i + 1) \in kept /\ (i + 2) \in kept

\* C4 (cutting moves are kept): the cutting moves of the optimized stream
\* are those of the input stream, in the same order, and every line the
\* optimizer removed is a Z move or an XY move made with the knife up.
C4_CuttingMovesKept ==
    opc = "optimized" =>
        /\ CuttingMoves(cleaned_lines) = CuttingMoves(gcode_content)
        /\ \A k \in 1 .. Len(gcode_content) :
               k \notin LineNos(cleaned_lines) =>
                   \/ gcode_content[k].axis = "Z"
                   \/ ~ToolDownAfter(gcode_content, k - 1)

\* C5 (lifts are elided only when safe): every ToolDown and every cutting
\* move of the stream the first pass returns starts at the XY position,
\* within tolerance, at which it starts in the input stream.
C5_ElisionSafe ==
    opc = "optimized" =>
        \A k \in 1 .. Len(optimized_lines) :
            (IsToolDown(optimized_lines[k])
             \/ IsCuttingMove(optimized_lines, k))
            => SamePlace(PositionAfter(optimized_lines, k - 1),
                         PositionAfter(gcode_content,
                                       optimized_lines[k].n - 1))

(***************************************************************************)
(* Properties of svg_to_gcode: the pass schedule                           *)
(***************************************************************************)
\* ToolDown, as it is rendered: a G1 Z line at the cutting speed
IsToolDownLine(l) == l.g = "G1" /\ l.axis = "Z" /\ l.f = "cutting"

\* the pass a compiled line is of
PassOf(l) == l.tag[1]

\* the lines compiled so far
CompiledLines ==
    IF spc = "passes" THEN JoinPasses(all_passes_gcode) ELSE combined_gcode

\* the ToolDown lines compiled so far
ToolDownLines ==
    {CompiledLines[j] : j \in {i \in 1 .. Len(CompiledLines) :
                                   IsToolDownLine(CompiledLines[i])}}

\* the depth a ToolDown line cuts at: the thickness minus its Z
DepthOfLine(l) == ZOf(params.material_thickness) - l.z.mant

\* pass i (0-based) cuts at thickness / N * (i + 1), and the Z of its
\* ToolDown lines is the thickness minus that depth
DepthsFollowSchedule ==
    /\ spc = "passes" /\ pass_num > 0 =>
           pass_depth * params.number_of_passes
               = ZOf(params.material_thickness) * pass_num
    /\ \A l \in ToolDownLines :
           /\ l.z.exp = 0
           /\ DepthOfLine(l) * params.number_of_passes
                  = ZOf(params.material_thickness) * PassOf(l)

\* once every pass is compiled, the last one cuts at the thickness
LastDepthIsThickness ==
    spc \in {"compiled", "written", "read", "done"} =>
        /\ pass_depth = ZOf(params.material_thickness)
        /\ \A l \in ToolDownLines :
               PassOf(l) = params.number_of_passes => l.z = Num(0)

MovesOf(lines, k, c) ==
    SelectSeq(lines, LAMBDA l : l.tag = <<k, c>> /\ l.axis = "XY")

\* pass k travels to the first point of curve c and cuts to each further
\* one, with the knife put down in between
Traverses(lines, k, c) ==
    /\ MovesOf(lines, k, c) =
           [j \in 1 .. Len(curves[c]) |->
               [LinearMove(params, svg_bounds, curves[c][j], j > 1)
                    EXCEPT !.tag = <<k, c>>]]
    /\ \E i \in 1 .. Len(lines) - 2 :
           /\ lines[i].tag = <<k, c>> /\ lines[i].f = "movement"
           /\ lines[i].axis = "XY"
           /\ IsToolDownLine(lines[i + 1]) /\ lines[i + 1].tag = <<k, c>>
           /\ lines[i + 2].tag = <<k, c>> /\ lines[i + 2].f = "cutting"
           /\ lines[i + 2].axis = "XY"

\* C7: with number_of_passes = N > 1 the compiled stream is N complete
\* per-pass streams in increasing pass order: every line of pass k comes
\* before every line of pass k + 1, each pass traverses every curve, and
\* every ToolDown of pass k is at the depth of pass k.
C7_PassOrdering ==
    params.number_of_passes > 1 /\ combined_gcode # <<>> =>
        /\ \A i, j \in 1 .. Len(combined_gcode) :
               i < j => PassOf(combined_gcode[i]) <= PassOf(combined_gcode[j])
        /\ {PassOf(combined_gcode[i]) : i \in 1 .. Len(combined_gcode)}
               = 1 .. params.number_of_passes
        /\ \A k \in 1 .. params.number_of_passes :
               \A c \in 1 .. Len(curves) : Traverses(combined_gcode, k, c)
        /\ \A i \in 1 .. Len(combined_gcode) :
               IsToolDownLine(combined_gcode[i]) =>
                   combined_gcode[i].z.mant * params.number_of_passes
                       = ZOf(params.material_thickness)
                         * (params.number_of_passes
                            - PassOf(combined_gcode[i]))

\* the most passes over the most curves, through material with a thickness
C7_Witness ==
    /\ spc = "compiled"
    /\ params.number_of_passes = MaxPasses
    /\ params.material_thickness > 0
    /\ Len(curves) = MaxCurves
    /\ Len(combined_gcode) > MaxPasses * MaxCurves * 4

(***************************************************************************)
(* Properties of svg_to_gcode: the output file of a call that fails        *)
(***************************************************************************)
\* the stream after every post-processing step of the jobs of the model
FullyProcessed(lines) ==
    CleanLines(RemoveRedundantZ(ElideToolLifts(
        ApplyZOffset(AddHomeCommand(AddOriginSetting(lines, OriginCommand),
                                    HomeCommand),
                     params.z_offset))))

\* C8: when a step of svg_to_gcode has failed, the output file is either
\* untouched or holds the complete, fully post-processed stream.
C8_NoPartialOutput ==
    spc = "failed" =>
        \/ ~out_file.written
        \/ out_file.content = FullyProcessed(combined_gcode)

(***************************************************************************)
(* Properties of KnifeOffsetCompensator.compensate_path                    *)
(***************************************************************************)
\* the compensation applies: at least 2 points and an offset
Compensates == Len(points) >= 2 /\ offset # 0

\* the path the corner loops are added to
LoopedPath == IF Compensates THEN offset_path ELSE points

\* the output is the path with the corners of looped each replaced by 6
\* points, the last of them the corner: point i of the path is found 5
\* places further for every looped corner up to it
LoopsAt(looped) ==
    /\ Len(compensated) = Len(points) + 5 * Cardinality(looped)
    /\ \A i \in 1 .. Len(points) :
           compensated[i + 5 * Cardinality({j \in looped : j <= i})]
               = LoopedPath[i]
    /\ \A i \in 2 .. Len(points) - 1 :
           (/\ Compensates
            /\ AngleClass(LoopedPath[i - 1], LoopedPath[i], LoopedPath[i + 1])
                   = "sharp") => i \in looped

\* C10: for every non-empty input polyline compensate_path returns a
\* non-empty polyline of at least as many points: with n input points and k
\* interior corners that receive a corner loop the output has exactly
\* n + 5k points, each looped corner being replaced by the 6 points of its
\* loop, and the first and last output points are the offsets of the first
\* and last input points (the points themselves where nothing is offset:
\* offset 0, or a single point).
C10_CompensatedLength ==
    kpc = "done" /\ points # <<>> =>
        /\ compensated # <<>>
        /\ Len(compensated) >= Len(points)
        /\ \E looped \in SUBSET (2 .. Len(points) - 1) : LoopsAt(looped)
        /\ IF Compensates
           THEN /\ compensated[1] =
                       OffsetPointPerpendicular(
                           points[1],
                           GetDirectionVector(points[1], points[2]), offset)
                /\ compensated[Len(compensated)] =
                       OffsetPointPerpendicular(
                           points[Len(points)],
                           GetDirectionVector(points[Len(points) - 1],
                                              points[Len(points)]), offset)
                /\ ~compensated[1].nan
                /\ ~compensated[Len(compensated)].nan
           ELSE compensated = points

\* a polyline of the most points is compensated and two of its corners
\* receive a loop
C10_Witness ==
    /\ kpc = "done"
    /\ offset # 0
    /\ Len(points) = MaxPoints
    /\ Len(compensated) = MaxPoints + 10
    /\ \A i \in 1 .. Len(compensated) : ~compensated[i].nan

(***************************************************************************)
(* Properties of the drag knife offset                                     *)
(***************************************************************************)
\* the X and Y words of the lines of a path
WordsOf(lines) ==
    [i \in 1 .. Len(lines) |-> Vec(lines[i].x.mant, lines[i].y.mant)]

\* C11: compensation with offset 0, or of a polyline of fewer than 2 points,
\* returns the input points unchanged, in each of compensate_path,
\* _apply_drag_knife_offset and _calculate_drag_knife_offset.
C11_Passthrough ==
    /\ (kpc = "done" /\ (offset = 0 \/ Len(points) < 2)) =>
           compensated = points
    /\ (dpc = "calculated"
        /\ (drag_params.knife_offset = 0 \/ Len(drag_points) < 2)) =>
           offset_points = drag_points
    /\ (dpc = "applied"
        /\ (drag_params.knife_offset = 0 \/ Len(cutting_path) < 2)) =>
           /\ Len(offset_lines) = Len(cutting_path)
           /\ WordsOf(offset_lines) = PointsOf(cutting_path)

\* C12: every interior point of a polyline offset by _calculate_drag_knife_
\* offset, at every swivel sensitivity and every turn (reversals and
\* repeated points among them), lies at the distance knife_offset from the
\* original point, to within one part in a hundred.
C12_OffsetMagnitude ==
    dpc = "calculated" =>
        \A i \in 2 .. Len(drag_points) - 1 :
            LET d == drag_params.knife_offset * Resolution
                dist == Norm(VecSub(offset_points[i], drag_points[i]))
            IN  /\ 100 * dist >= 99 * d
                /\ 100 * dist <= 101 * d


(***************************************************************************)
(* Properties of transform_coordinates                                     *)
(***************************************************************************)
\* C13: transform_coordinates returns (x, y) unchanged when origin_top_left
\* is false or no bounds are set, whatever the mirror flags; otherwise
\* X = x - min_x, or width - (x - min_x) with mirror_x, and
\* Y = height - (y - min_y), or y - min_y with mirror_y; a point inside the
\* bounds maps into [0, width] x [0, height]; the call changes nothing of
\* the interface.
C13_TransformCoordinates ==
    tpc = "done" =>
        IF ~iface.origin_top_left \/ iface.svg_bounds = None
        THEN transformed = xy
        ELSE LET min_x == iface.svg_bounds[1]
                 min_y == iface.svg_bounds[2]
                 width == iface.svg_bounds[3] - min_x
                 height == iface.svg_bounds[4] - min_y
             IN  /\ transformed[1] = IF iface.mirror_x
                                     THEN width - (xy[1] - min_x)
                                     ELSE xy[1] - min_x
                 /\ transformed[2] = IF iface.mirror_y
                                     THEN xy[2] - min_y
                                     ELSE height - (xy[2] - min_y)
                 /\ (/\ xy[1] \in min_x .. iface.svg_bounds[3]
                     /\ xy[2] \in min_y .. iface.svg_bounds[4]) =>
                        /\ transformed[1] \in 0 .. width
                        /\ transformed[2] \in 0 .. height

\* a point inside bounds that do not start at the origin is flipped
C13_Witness ==
    /\ tpc = "done"
    /\ iface.origin_top_left
    /\ ~iface.mirror_x
    /\ ~iface.mirror_y
    /\ iface.svg_bounds = <<1, 1, MaxCoord, MaxCoord>>
    /\ xy = <<1, 1>>
    /\ transformed = <<0, MaxCoord - 1>>


(***************************************************************************)
(* Properties of the rendered stream                                       *)
(***************************************************************************)
\* the stream svg_to_gcode hands over: the post-processed lines
IsFinalStream == spc \in {"optimized", "done"}

\* a ToolUp of a stream: "G1 Z{safe_height} F{movement_speed}"
IsToolUpLine(l) == l.g = "G1" /\ l.axis = "Z" /\ l.f = "movement"

\* C14: every ToolUp of the final stream moves to the explicitly configured
\* safe height when one is configured, whatever the z_offset, and otherwise
\* to material_thickness + 2 + z_offset.
C14_SafeHeight ==
    IsFinalStream =>
        \A k \in 1 .. Len(processed_gcode) :
            IsToolUpLine(processed_gcode[k]) =>
                FloatOf(processed_gcode[k].z) =
                    IF params.z_safe_height # None
                    THEN ZOf(params.z_safe_height[1])
                    ELSE ZOf(params.material_thickness + SafeClearance
                             + params.z_offset)


\* the lines of a stream that set the origin: "G92 X0 Y0"
SetOrigins(lines) == {k \in 1 .. Len(lines) : lines[k].g = "G92"}

\* the Homes of a stream: a lift "G0 Z.." followed by the rapid "G0 X0 Y0"
Homes(lines) ==
    {k \in 1 .. Len(lines) - 1 :
        /\ lines[k].g = "G0" /\ lines[k].axis = "Z"
        /\ lines[k + 1].g = "G0" /\ lines[k + 1].axis = "XY"
        /\ FloatOf(lines[k + 1].x) = 0 /\ FloatOf(lines[k + 1].y) = 0}

\* the motion instructions of the passes: the G0 and G1 lines that are not
\* of a Home
Motions(lines) ==
    {k \in 1 .. Len(lines) :
        /\ lines[k].g \in {"G0", "G1"}
        /\ \A h \in Homes(lines) : k \notin {h, h + 1}}

\* C15: the final stream of every job, of one pass or of several, holds
\* exactly one SetOrigin, before every motion instruction, and exactly one
\* Home, after every motion instruction of every pass: the lift of the
\* home command (to Z50 plus z_offset) followed by the rapid to X0 Y0.
C15_OriginAndHome ==
    IsFinalStream =>
        /\ Cardinality(SetOrigins(processed_gcode)) = 1
        /\ Cardinality(Homes(processed_gcode)) = 1
        /\ Motions(processed_gcode) # {}
        /\ \A o \in SetOrigins(processed_gcode),
              h \in Homes(processed_gcode),
              m \in Motions(processed_gcode) :
               /\ o < m
               /\ m < h
               /\ h + 1 = Len(processed_gcode)
               /\ FloatOf(processed_gcode[h].z) =
                      ZOf(HomeZ + params.z_offset)


\* C16: parameters with number_of_passes below 1 or a material_thickness
\* below 0 make svg_to_gcode fail before any instruction is emitted: no
\* stream is compiled, processed or written from them.
C16_InvalidRejected ==
    (params.number_of_passes < 1 \/ params.material_thickness < 0) =>
        /\ spc # "done"
        /\ all_passes_gcode = <<>>
        /\ combined_gcode = <<>>
        /\ processed_gcode = <<>>
        /\ ~out_file.written


\* C17: join_paths never returns an empty result: once it has returned, the
\* list of joined paths is not empty and every joined path has at least one
\* segment (the joiner has no error outcome, so a return is the only one)
C17_NoEmptyJoin ==
    jpc = "joined" =>
        /\ joined_paths # <<>>
        /\ \A k \in 1 .. Len(joined_paths) : Len(joined_paths[k]) >= 1


\* the components of the loaded paths that are joined into a chain
JoinedComponents ==
    {k \in 1 .. Len(FindConnectedComponents(paths)) :
        Len(FindConnectedComponents(paths)[k]) >= 2}

\* the growth steps of the chain of component k
StepsOf(k) ==
    LET component == FindConnectedComponents(paths)[k]
    IN  GrowthSteps(paths[component[1]],
                    [i \in 1 .. Len(component) - 1 |-> paths[component[i + 1]]])

\* the original input index of a loaded path
InputIndex(path) == path[1].src

\* the path a growth step attaches is a closest candidate, and of the closest
\* candidates the one with the lowest input index
ClosestLowestIndex(step) ==
    LET attached == step.remaining_paths[step.best_idx]
        distance == step.best_connection[2]
    IN  \A i \in 1 .. Len(step.remaining_paths) :
            LET connection ==
                    FindBestConnection(step.all_segments, step.remaining_paths[i])
            IN  connection # None =>
                    \/ distance < connection[2]
                    \/ /\ distance = connection[2]
                       /\ InputIndex(attached) <= InputIndex(step.remaining_paths[i])

\* C19: the seed of every chain is the lowest-index path of its component, and
\* every growth step attaches the remaining candidate closest to a chain end,
\* the one with the lowest input index among equally close candidates
C19_GrowthOrder ==
    jpc = "joined" =>
        \A k \in JoinedComponents :
            LET component == FindConnectedComponents(paths)[k]
            IN  /\ \A i \in 1 .. Len(component) : component[1] <= component[i]
                /\ \A s \in 1 .. Len(StepsOf(k)) : ClosestLowestIndex(StepsOf(k)[s])


\* C20: in every joined path, a segment of one input path that is directly
\* followed by a segment of another input path ends within the tolerance of
\* that segment's start; and two input paths of which one ends exactly where
\* the other starts are joined into one path, the former's segments first
\* (of a closed pair, the path loaded first comes first)
C20_JunctionContinuity ==
    jpc = "joined" =>
        /\ \A k \in 1 .. Len(joined_paths) :
               \A i \in 1 .. Len(joined_paths[k]) - 1 :
                   joined_paths[k][i].src # joined_paths[k][i + 1].src =>
                       WithinTolerance(Dist2(joined_paths[k][i].end,
                                             joined_paths[k][i + 1].start))
        /\ Len(paths) = 2 =>
               \A a, b \in 1 .. 2 :
                   (/\ a # b
                    /\ PathEnd(paths[a]) = PathStart(paths[b])
                    /\ (a = 1 \/ PathEnd(paths[b]) # PathStart(paths[a])))
                   => joined_paths = <<paths[a] \o paths[b]>>

\* path A from (0,0) to (3,0) and path B from (3,0) to (3,2) were joined
\* into the one path A, B
C20_Witness ==
    /\ jpc = "joined"
    /\ Len(paths) = 2
    /\ PathStart(paths[1]) = <<0, 0>> /\ PathEnd(paths[1]) = <<3, 0>>
    /\ PathStart(paths[2]) = <<3, 0>> /\ PathEnd(paths[2]) = <<3, 2>>
    /\ joined_paths = <<paths[1] \o paths[2]>>


(***************************************************************************)
(* Concurrent jobs                                                         *)
(***************************************************************************)
\* job j as it is before its first step
Fresh(j) ==
    NewJob(jobs[j].svg_path, jobs[j].output_path, jobs[j].join_paths,
           jobs[j].drawing)

\* job j run alone on the files the two jobs were started on
Alone(j) == RunAlone(Fresh(j), InputFiles(jobs))

\* C18: under every interleaving of the steps of two jobs on different input
\* and output files, a job that has returned or raised did so as it does when
\* run alone, with the same result, and once both jobs are over its output
\* file holds what it holds after the run alone
C18_NoInterference ==
    \A j \in Jobs :
        jobs[j].pc \in Terminal =>
            /\ jobs[j].pc = Alone(j).job.pc
            /\ jobs[j].result = Alone(j).job.result
            /\ ((\A i \in Jobs : jobs[i].pc \in Terminal)
                /\ jobs[j].output_path # None)
               => fs[jobs[j].output_path] = Alone(j).files[jobs[j].output_path]


(***************************************************************************)
(* The gate of the corner loops                                            *)
(***************************************************************************)
\* the turn at p2 from the direction p1 -> p2 to the direction p2 -> p3,
\* against math.pi / 4: the angle between p2 - p1 and p3 - p2
TurnAngleClass(p1, p2, p3) ==
    AngleClass(VecSub(VecAdd(p2, p2), p1), p2, p3)

RECURSIVE GatedLoopsFrom(_, _, _, _)
\* the middle points from point i, a corner loop at those of the set gated
GatedLoopsFrom(pts, i, radius, gated) ==
    IF i > Len(pts) - 1 THEN <<>>
    ELSE (IF i \in gated
          THEN CreateCornerLoop(pts[i - 1], pts[i], pts[i + 1], radius)
          ELSE <<pts[i]>>)
         \o GatedLoopsFrom(pts, i + 1, radius, gated)

\* the interior points of pts of a turn of class c
TurnsOf(pts, c) ==
    {i \in 2 .. Len(pts) - 1 :
        TurnAngleClass(pts[i - 1], pts[i], pts[i + 1]) = c}

\* C21: the second pass of compensate_path inserts a corner loop at an
\* interior point of the offset path exactly when the turn there, from the
\* incoming to the outgoing direction, exceeds pi/4, and copies every other
\* interior point through as one point (a turn of pi/4 may fall either way)
C21_CornerLoopGate ==
    (kpc = "done" /\ Len(offset_path) >= 3) =>
        \E ties \in SUBSET TurnsOf(offset_path, "tie") :
            compensated =
                <<offset_path[1]>>
                \o GatedLoopsFrom(offset_path, 2, corner_loop_radius,
                                  TurnsOf(offset_path, "sharp") \cup ties)
                \o <<offset_path[Len(offset_path)]>>


(***************************************************************************)
(* Feed rate and tool state                                                *)
(***************************************************************************)
\* what the last call returned agrees with the most recent tool command
RenderedByToolState ==
    /\ call.name = "linear_move" =>
           /\ ~raised
           /\ returned.g = "G1" /\ returned.axis = "XY"
           /\ returned.f = IF tool_cmd = "down" THEN "cutting" ELSE "movement"
    /\ call.name = "rapid_move" =>
           ~raised /\ returned.g = "G0" /\ returned.f = "movement"
    /\ call.name = "set_laser_power" =>
           (raised <=> (call.arg[1] < 0 \/ call.arg[1] > 10))
    /\ is_cutting = (tool_cmd = "down")

\* a set_laser_power call that raises changes nothing of the tool state
RaiseKeepsState ==
    (call'.name = "set_laser_power" /\ raised')
        => (is_cutting' = is_cutting /\ tool_cmd' = tool_cmd)

\* C22: a linear move is rendered with the cutting speed exactly when the
\* most recent tool command was a tool-down, and with the movement speed
\* after a tool-up or before any tool command; a rapid move is always
\* rendered with the movement speed; set_laser_power with a power below 0 or
\* above 1 raises and leaves the tool state as it was
C22_FeedFollowsTool == []RenderedByToolState /\ [][RaiseKeepsState]_vars

\* a linear move at the cutting speed, and the tool is down
C22_Witness ==
    /\ call.name = "linear_move"
    /\ tool_cmd = "down"
    /\ returned.f = "cutting"


(***************************************************************************)
(* Redundant Z moves                                                       *)
(***************************************************************************)
\* line i of the stream the second pass is given is in the stream it returns
KeptByZPass(i) ==
    \E k \in 1 .. Len(final_lines) : final_lines[k].n = optimized_lines[i].n

\* the Z moves before line i that the second pass kept
KeptZBefore(i) ==
    {j \in 1 .. i - 1 : optimized_lines[j].axis = "Z" /\ KeptByZPass(j)}

\* the kept Z move before line i that is the most recent
LastKeptZ(i) == CHOOSE j \in KeptZBefore(i) : \A h \in KeptZBefore(i) : h <= j

\* the Z a line moves to, in units of 0.1 mm
ZValue(l) == FloatOf(l.z)

\* C23: the second pass of _optimize_tool_lifts suppresses a Z move exactly
\* when its Z is that (to less than 0.001) of the most recent Z move it kept;
\* it keeps every other line, and it keeps the order of the lines
C23_RedundantZ ==
    opc = "optimized" =>
        /\ \A i \in 1 .. Len(optimized_lines) :
               IF optimized_lines[i].axis = "Z"
               THEN ~KeptByZPass(i) <=>
                        /\ KeptZBefore(i) # {}
                        /\ ZValue(optimized_lines[i])
                               = ZValue(optimized_lines[LastKeptZ(i)])
               ELSE KeptByZPass(i)
        /\ \A k \in 1 .. Len(final_lines) - 1 :
               final_lines[k].n < final_lines[k + 1].n


(***************************************************************************)
(* The Z offset                                                            *)
(***************************************************************************)
\* the sub-passes of _optimize_tool_lifts, one after the other
OptimizedStream(lines) == CleanLines(RemoveRedundantZ(ElideToolLifts(lines)))

\* line i of the returned stream is line i of the argument with its Z
\* value raised by z_offset, if it is a G0 or G1 line with a Z word, and is
\* line i of the argument if not
OffsetAdded(i) ==
    IF zarg_content[i].axis = "Z" /\ zarg_content[i].g \in {"G0", "G1"}
    THEN /\ ZValue(zret[i]) = ZValue(zarg_content[i]) + ZOf(zarg_offset)
         /\ [zret[i] EXCEPT !.z = zarg_content[i].z] = zarg_content[i]
    ELSE zret[i] = zarg_content[i]

\* C24: _apply_z_offset adds z_offset to the Z value of every instruction
\* that carries one and changes nothing else, with z_offset = 0 it returns
\* the stream unchanged, and it commutes with the sub-passes of the
\* optimizer: optimizing the offset stream gives the offset of the
\* optimized stream
C24_ZOffsetCommutes ==
    zpc = "done" =>
        /\ Len(zret) = Len(zarg_content)
        /\ \A i \in 1 .. Len(zarg_content) : OffsetAdded(i)
        /\ zarg_offset = 0 => zret = zarg_content
        /\ OptimizedStream(zret)
               = ApplyZOffset(OptimizedStream(zarg_content), zarg_offset)


(***************************************************************************)
(* The lines the knife offset takes                                        *)
(***************************************************************************)
\* the lines of a stream, each with its line number
Numbered(lines) == [k \in 1 .. Len(lines) |-> [lines[k] EXCEPT !.n = k]]

RECURSIVE PathLineNumbers(_)
\* the line numbers of the paths a run of the loop of
\* _apply_simple_2d_offset handed to _apply_drag_knife_offset
PathLineNumbers(processed_lines) ==
    IF processed_lines = <<>> THEN {}
    ELSE (IF Head(processed_lines).offset
          THEN {Head(processed_lines).lines[k].n :
                    k \in 1 .. Len(Head(processed_lines).lines)}
          ELSE {})
         \cup PathLineNumbers(Tail(processed_lines))

\* the lines of a stream that _apply_simple_2d_offset collects into a
\* cutting path and hands to _apply_drag_knife_offset
CompensatedLines(lines, p) ==
    PathLineNumbers(Simple2dLoop(Numbered(lines), 1, <<>>, <<>>, FALSE, p))

\* the tool-down linear moves of a stream, "G1 X.. Y.. F{cutting_speed}",
\* and its tool-up travel moves, "G1 X.. Y.. F{movement_speed}"
ToolDownMoves(lines) ==
    {k \in 1 .. Len(lines) :
        lines[k].g = "G1" /\ lines[k].axis = "XY" /\ lines[k].f = "cutting"}
TravelMoves(lines) ==
    {k \in 1 .. Len(lines) :
        lines[k].g = "G1" /\ lines[k].axis = "XY" /\ lines[k].f = "movement"}

\* C25: where knife_offset is not 0, the lines the knife offset stage takes
\* into its cutting paths are exactly the tool-down linear moves of the
\* stream it is given: every cutting move of every pass, none of the travel
\* moves, whatever the z_offset and the safe height
C25_CompensatesCuts ==
    [][KnifeOffsetStage =>
          /\ CompensatedLines(processed_gcode, params)
                 = ToolDownMoves(processed_gcode)
          /\ CompensatedLines(processed_gcode, params)
                 \cap TravelMoves(processed_gcode) = {}]_vars


(***************************************************************************)
(* What the knife offset leaves alone                                      *)
(***************************************************************************)
\* line k of the stream the stage puts out is line k of the stream it was
\* given, but for its X and Y words
SameButXY(out, given, k) ==
    [out[k] EXCEPT !.x = given[k].x, !.y = given[k].y] = given[k]

\* C26: the knife offset stage changes only X and Y words: the stream it
\* puts out has as many lines as the stream it is given, and each of its
\* lines is the line of that place in the given stream, but for X and Y, so
\* that all lines keep their order
C26_OnlyXYChanged ==
    [][KnifeOffsetStage =>
          /\ Len(processed_gcode') = Len(processed_gcode)
          /\ \A k \in 1 .. Len(processed_gcode) :
                 SameButXY(processed_gcode', processed_gcode, k)]_vars


(***************************************************************************)
(* The two branches of svg_to_gcode                                        *)
(***************************************************************************)
\* what the branch without an output_path makes of a compiled stream:
\* origin, home, Z offset, optimization
StringBranch(combined, p) ==
    OptimizedStream(
        ApplyZOffset(
            AddHomeCommand(AddOriginSetting(combined, OriginCommand),
                           HomeCommand),
            p.z_offset))

\* what the branch with an output_path makes of it: origin, home, Z offset,
\* knife offset, optimization
FileBranch(combined, p, tie_sharp) ==
    OptimizedStream(
        ApplySimple2dOffset(
            ApplyZOffset(
                AddHomeCommand(AddOriginSetting(combined, OriginCommand),
                               HomeCommand),
                p.z_offset),
            p, tie_sharp))

\* C27: svg_to_gcode returns the same stream with an output_path and
\* without: what a finished job returned is what the other branch makes of
\* the stream it compiled
C27_BranchesAgree ==
    spc = "done" =>
        IF output_path
        THEN processed_gcode = StringBranch(combined_gcode, params)
        ELSE \E tie_sharp \in BOOLEAN :
                 processed_gcode = FileBranch(combined_gcode, params, tie_sharp)


(***************************************************************************)
(* The files of one job                                                    *)
(***************************************************************************)
\* the files svg_to_gcode may create or change: output_path and the
\* joined-paths SVG next to it
FilesOfOutput(job) ==
    IF job.output_path = None THEN {}
    ELSE {job.output_path, JoinedSvgPath(job.output_path)}

\* C28: after svg_to_gcode has returned, whatever the name of the input
\* file, the input file is there with the content it had, the temporary
\* joined SVG is not there, and no file but the output file and the
\* joined-paths SVG next to it has been created or changed
C28_InputUntouched ==
    (jobs[1].pc = "done" /\ jobs[2].pc = "none") =>
        /\ fs[jobs[1].svg_path] = Drawing(jobs[1].drawing)
        /\ jobs[1].join_paths => fs[TempSvgPath(jobs[1].svg_path)] = Absent
        /\ \A n \in FileNames :
               fs[n] # InputFiles(jobs)[n] => n \in FilesOfOutput(jobs[1])


(***************************************************************************)
(* The legacy PathJoiner                                                   *)
(***************************************************************************)
ConnectionTypes ==
    {"end_to_start", "end_to_end", "start_to_start", "start_to_end"}

\* _check_connection returns each of the four connection types for some
\* endpoints
EveryTypeReturned ==
    \A t \in ConnectionTypes :
        \E end1 \in Points, start2 \in Points, end2 \in Points :
            CheckConnection(end1, start2, end2) = t

\* the two endpoints of a sequence of points
EndpointsOf(pts) == {pts[1], pts[Len(pts)]}

\* no joined curve has its start or its end within tolerance of an endpoint
\* of an input curve that was still remaining when it was finished, that
\* is, of an input curve of a later joined curve
NothingLeftToMerge ==
    \A i \in 1 .. Len(pj_joined), j \in 1 .. Len(pj_joined) :
        i < j =>
            \A c \in pj_joined[j].srcs :
                \A p \in EndpointsOf(pj_joined[i].points),
                   q \in EndpointsOf(pj_curves[c]) :
                    ~PointsClose(p, q)

\* every input curve with points is of exactly one joined curve
InOneJoinedCurve ==
    \A c \in 1 .. Len(pj_curves) :
        pj_curves[c] # <<>> =>
            Cardinality({k \in 1 .. Len(pj_joined) :
                            c \in pj_joined[k].srcs}) = 1

\* C29: the legacy PathJoiner joins on all four endpoint combinations:
\* _check_connection returns each of the four connection types for some
\* endpoints, join_paths merges a remaining curve into the current chain
\* whenever the start or the end of the chain is within tolerance of an
\* endpoint of that curve, and every input curve with points ends up in
\* exactly one joined curve
C29_FourWayJoin ==
    /\ EveryTypeReturned
    /\ (pjpc = "joined" /\ PathData(pj_curves, 1) # <<>>) =>
           /\ NothingLeftToMerge
           /\ InOneJoinedCurve


(***************************************************************************)
(* The knife in the G-code of the standalone converter                     *)
(***************************************************************************)
\* the Z the knife is at when line k is run: that of the last Z word of the
\* lines before it (the header has one)
KnifeZAt(k) ==
    LET zs == {h \in 1 .. k - 1 : tp_gcode[h].axis = "Z"}
    IN  tp_gcode[CHOOSE h \in zs : \A h2 \in zs : h2 <= h].z

\* the lines made for path i, and among them its rapids, its cuts, and the
\* lines that lower and raise the knife
LinesOfPath(i) == {k \in 1 .. Len(tp_gcode) : tp_gcode[k].tag = <<i, 0>>}
RapidsOfPath(i) ==
    {k \in LinesOfPath(i) : tp_gcode[k].g = "G0" /\ tp_gcode[k].axis = "XY"}
CutsOfPath(i) ==
    {k \in LinesOfPath(i) : tp_gcode[k].g = "G1" /\ tp_gcode[k].axis = "XY"}
LowersOfPath(i) ==
    {k \in LinesOfPath(i) : tp_gcode[k].g = "G1" /\ tp_gcode[k].axis = "Z"}
RaisesOfPath(i) ==
    {k \in LinesOfPath(i) : tp_gcode[k].g = "G0" /\ tp_gcode[k].axis = "Z"}

\* path i is lowered once, right after its one rapid, and raised once,
\* right after the last of its cuts
LoweredAndRaisedOnce(i) ==
    /\ Cardinality(RapidsOfPath(i)) = 1
    /\ Cardinality(LowersOfPath(i)) = 1
    /\ Cardinality(RaisesOfPath(i)) = 1
    /\ CutsOfPath(i) # {}
    /\ \A r \in RapidsOfPath(i), l \in LowersOfPath(i), u \in RaisesOfPath(i) :
           /\ l = r + 1
           /\ \A c \in CutsOfPath(i) : l < c /\ c < u
           /\ u - 1 \in CutsOfPath(i)

\* C30: in the G-code of generate_toolpath the knife is at z_safe during
\* every G0 X/Y rapid and at z_cut during every G1 X/Y move; every path of
\* at least 2 points is lowered once, after its rapid to the lead-in point,
\* and raised once, after its last cut; a path of fewer than 2 points has
\* no line; and the program ends with the knife raised
C30_KnifeState ==
    gpc = "generated" =>
        /\ \A k \in 1 .. Len(tp_gcode) :
               tp_gcode[k].axis = "XY" =>
                   /\ tp_gcode[k].g \in {"G0", "G1"}
                   /\ KnifeZAt(k) = IF tp_gcode[k].g = "G0"
                                    THEN Format3(tp_config.z_safe)
                                    ELSE Format3(tp_config.z_cut)
        /\ \A i \in 1 .. Len(tp_paths) :
               IF Len(tp_paths[i]) >= 2 THEN LoweredAndRaisedOnce(i)
               ELSE LinesOfPath(i) = {}
        /\ KnifeZAt(Len(tp_gcode) + 1) = Format3(tp_config.z_safe)
        /\ tp_gcode[Len(tp_gcode)].g = "M2"

\* a program of two paths, the first with a sharp corner, has been generated
C30_Witness ==
    /\ gpc = "generated"
    /\ Len(tp_paths) = 2
    /\ Len(tp_paths[1]) = 3
    /\ Len(tp_paths[2]) = 2
    /\ Cardinality(CutsOfPath(1)) = 5
    /\ Cardinality(CutsOfPath(2)) = 3
    /\ Format3(tp_config.z_safe) # Num(tp_config.z_safe)

=============================================================================
